---- MODULE Spec2Model ----
(***************************************************************************)
(* Transaction construction of the wallet: createP2PTransaction,           *)
(* createRBFCancellationTransaction, getContext, setFee and                *)
(* setSelectionAndChangeStrategy of chains/ergo/transaction/txBuilder.ts,  *)
(* together with the collaborators they call (context provider, swap-box   *)
(* discovery, the transaction builder library).                            *)
(***************************************************************************)
EXTENDS Integers, Sequences, FiniteSets, TLC

(***************************************************************************)
(* Program constants (@/constants/ergo, imported at txBuilder.ts:10).      *)
(***************************************************************************)
ERG_DECIMALS == 9
MIN_BOX_VALUE == 1000000
SAFE_MIN_FEE_VALUE == 1100000
SAFE_MAX_CHANGE_TOKEN_LIMIT == 100

ERG_TOKEN_ID == "ERG"
FEE_CONTRACT == "fee"
Token == {"A", "B"}
TokenOrder == <<"A", "B">>
NoTokens == [t \in Token |-> 0]

(***************************************************************************)
(* Bounds of the model.                                                    *)
(***************************************************************************)
\* number of the unspent outputs of the chain view (wallet boxes and swap boxes)
NumBoxes == 6
\* longest list of spendable outputs the context provider returns
MaxFetched == 3
\* chain height reported by a successful height fetch
ChainHeight == 100
\* highest derivation index of an address row of the database
MaxAddressIndex == 2

(***************************************************************************)
(* BigNumber display amounts: c * 10^e.                                    *)
(***************************************************************************)
RECURSIVE Pow10(_)
Pow10(n) == IF n <= 0 THEN 1 ELSE 10 * Pow10(n - 1)

\* value.shiftedBy(decimals); a missing / zero scale leaves the value as it is
undecimalize(value, decimals) ==
    IF decimals = 0 THEN value ELSE [c |-> value.c, e |-> value.e + decimals]

\* the integer a BigNumber denotes once it is handed to the builder as a string
ToInt(v) == IF v.e >= 0 THEN v.c * Pow10(v.e) ELSE v.c \div Pow10(0 - v.e)

(***************************************************************************)
(* The chain view: unspent outputs by box id.                              *)
(*   owner 1, 2: wallet boxes; owner 0: swap (Babel) boxes for asset A,    *)
(*   rate = nanoErgs per token unit stored in the box.                     *)
(***************************************************************************)
BoxId == 1..NumBoxes

Toks(a, b) == [t \in Token |-> IF t = "A" THEN a ELSE b]

MkBox(o, v, tk, h, s, r) ==
    [owner |-> o, value |-> v, assets |-> tk, creationHeight |-> h,
     ergoTree |-> s, rate |-> r]

Box(id) ==
    CASE id = 1 -> MkBox(1, 5000000, Toks(30000, 0), 10, "addr1", 0)
      [] id = 2 -> MkBox(1, 2000000, Toks(0, 5),     10, "addr1", 0)
      [] id = 3 -> MkBox(1, 3000000, NoTokens,       20, "addr1", 0)
      [] id = 4 -> MkBox(2, 4000000, Toks(20000, 7),  5, "addr2", 0)
      [] id = 5 -> MkBox(0, 10000000, Toks(1000, 0),  1, "babel:A", 100)
      [] id = 6 -> MkBox(0, 2500000, NoTokens,        1, "babel:A", 200)
      [] OTHER  -> MkBox(1, 1000000 * id, NoTokens,  30, "addr1", 0)

WalletBoxes(w) == {id \in BoxId : Box(id).owner = w}
BabelBoxes == {id \in BoxId : Box(id).owner = 0}

(***************************************************************************)
(* Sums over boxes and outputs.                                            *)
(***************************************************************************)
Amount(id, t) == IF t = ERG_TOKEN_ID THEN Box(id).value ELSE Box(id).assets[t]

RECURSIVE SumBoxes(_, _)
SumBoxes(seq, t) ==
    IF seq = <<>> THEN 0 ELSE Amount(Head(seq), t) + SumBoxes(Tail(seq), t)

OutAmount(o, t) == IF t = ERG_TOKEN_ID THEN o.value ELSE o.assets[t]

RECURSIVE SumOutputs(_, _)
SumOutputs(seq, t) ==
    IF seq = <<>> THEN 0 ELSE OutAmount(Head(seq), t) + SumOutputs(Tail(seq), t)

RECURSIVE FilterSeq(_, _)
FilterSeq(seq, S) ==
    IF seq = <<>> THEN <<>>
    ELSE IF Head(seq) \in S THEN <<Head(seq)>> \o FilterSeq(Tail(seq), S)
         ELSE FilterSeq(Tail(seq), S)

Range(seq) == {seq[i] : i \in 1..Len(seq)}

HasDuplicates(seq) == \E i, j \in 1..Len(seq) : i < j /\ seq[i] = seq[j]

TokensOf(assets) == {t \in Token : assets[t] > 0}

NumAssets(id) == Cardinality(TokensOf(Box(id).assets))

(***************************************************************************)
(* Output Selector (BoxSelector of the builder library).                   *)
(***************************************************************************)
\* stable insertion of x into a list sorted by key
RECURSIVE InsertBy(_, _, _)
InsertBy(x, seq, key) ==
    IF seq = <<>> THEN <<x>>
    ELSE IF key[x] < key[Head(seq)] THEN <<x>> \o seq
         ELSE <<Head(seq)>> \o InsertBy(x, Tail(seq), key)

\* stable sort, ascending by key
RECURSIVE SortBy(_, _)
SortBy(seq, key) ==
    IF seq = <<>> THEN <<>>
    ELSE InsertBy(seq[Len(seq)], SortBy(SubSeq(seq, 1, Len(seq) - 1), key), key)

HeightKey == [id \in BoxId |-> Box(id).creationHeight]
AssetCountKey == [id \in BoxId |-> NumAssets(id)]

\* accumulate boxes holding asset t, in list order, until `need` is reached
RECURSIVE Pick(_, _, _, _)
Pick(seq, need, t, acc) ==
    IF seq = <<>> \/ acc >= need THEN <<>>
    ELSE IF Amount(Head(seq), t) > 0
         THEN <<Head(seq)>> \o Pick(Tail(seq), need, t, acc + Amount(Head(seq), t))
         ELSE Pick(Tail(seq), need, t, acc)

\* the boxes of `unsel` not yet in `sel`, accumulated for asset t when needed
PickMore(unsel, sel, need, t) ==
    IF need > 0
    THEN sel \o Pick(FilterSeq(unsel, Range(unsel) \ Range(sel)), need, t, 0)
    ELSE sel

\* the token targets, one after the other; `rem` is the remaining target
RECURSIVE PickTokens(_, _, _, _)
PickTokens(unsel, rem, order, sel) ==
    IF order = <<>> THEN sel
    ELSE PickTokens(unsel, rem, Tail(order),
                    PickMore(unsel, sel, rem[Head(order)] - SumBoxes(sel, Head(order)),
                             Head(order)))

\* the native target, after the boxes picked for the tokens
PickNative(unsel, rem, tok) ==
    PickMore(unsel, tok, rem[ERG_TOKEN_ID] - SumBoxes(tok, ERG_TOKEN_ID), ERG_TOKEN_ID)

\* AccumulativeSelectionStrategy.select: token targets first, then native value
Accumulative(unsel, rem) ==
    PickNative(unsel, rem, PickTokens(unsel, rem, TokenOrder, <<>>))

\* CherryPickSelectionStrategy: boxes with the fewest distinct assets first
CherryPick(unsel, rem) == Accumulative(SortBy(unsel, AssetCountKey), rem)

AllAssets == Token \cup {ERG_TOKEN_ID}

Selection(isOk, reason, boxes) == [ok |-> isOk, err |-> reason, inputs |-> boxes]

\* duplicates and unreached targets end the selection with an error
CheckSelection(sel, target) ==
    IF HasDuplicates(sel) THEN Selection(FALSE, "malformed", <<>>)
    ELSE IF \E t \in AllAssets : SumBoxes(sel, t) < target[t]
         THEN Selection(FALSE, "depletion", <<>>)
         ELSE Selection(TRUE, "", sel)

\* what is left of the target after the pinned boxes
Remaining(pinned, target) == [t \in AllAssets |-> target[t] - SumBoxes(pinned, t)]

\* the boxes the strategy may choose from, in the selector's order
Unselected(b) ==
    IF b.orderByHeight
    THEN SortBy(FilterSeq(b.inputs, Range(b.inputs) \ b.ensure), HeightKey)
    ELSE FilterSeq(b.inputs, Range(b.inputs) \ b.ensure)

RunStrategy(strategy, unsel, rem) ==
    IF strategy = "cherry" THEN CherryPick(unsel, rem) ELSE Accumulative(unsel, rem)

SelectFrom(pinned, unsel, strategy, target) ==
    CheckSelection(pinned \o RunStrategy(strategy, unsel, Remaining(pinned, target)),
                   target)

\* BoxSelector.select: pinned boxes first, the strategy for what remains
Select(b, target) ==
    SelectFrom(FilterSeq(b.inputs, b.ensure), Unselected(b), b.strategy, target)

(***************************************************************************)
(* Change Policy and Transaction Assembler (TransactionBuilder.build).     *)
(***************************************************************************)
MkOutput(v, script, tk, isChange) ==
    [value |-> v, ergoTree |-> script, assets |-> tk, change |-> isChange]

\* the asset ids of `assets` in canonical order
RECURSIVE TokenList(_, _)
TokenList(assets, order) ==
    IF order = <<>> THEN <<>>
    ELSE IF assets[Head(order)] > 0
         THEN <<Head(order)>> \o TokenList(assets, Tail(order))
         ELSE TokenList(assets, Tail(order))

\* chunk(list, size)
RECURSIVE Chunk(_, _)
Chunk(list, size) ==
    IF list = <<>> THEN <<>>
    ELSE IF Len(list) <= size THEN <<list>>
         ELSE <<SubSeq(list, 1, size)>> \o Chunk(SubSeq(list, size + 1, Len(list)), size)

\* the change left by a selection: inputs minus target, per asset
Leftover(boxes, target) == [t \in AllAssets |-> SumBoxes(boxes, t) - target[t]]

\* the leftover assets packed into change boxes of at most maxTokensPerChangeBox
ChangeChunks(b, left) == Chunk(TokenList(left, TokenOrder), b.maxTokensPerChangeBox)

\* native value k token boxes and the native rest need: the protocol minimum each
MinForBoxes(k, erg, isolate) ==
    IF k = 0 THEN (IF erg > 0 THEN MIN_BOX_VALUE ELSE 0)
    ELSE IF isolate /\ erg > k * MIN_BOX_VALUE
         THEN (k + 1) * MIN_BOX_VALUE
         ELSE k * MIN_BOX_VALUE

MinChangeValue(b, left) ==
    MinForBoxes(Len(ChangeChunks(b, left)), left[ERG_TOKEN_ID], b.isolateErgOnChange)

ChunkAssets(left, chunk) == [t \in Token |-> IF t \in Range(chunk) THEN left[t] ELSE 0]

\* the change outputs given the chunks and the native value beyond their minimum
PackChange(b, left, chunks, rest) ==
    IF chunks = <<>>
    THEN (IF rest > 0 THEN <<MkOutput(rest, b.changeAddress, NoTokens, TRUE)>> ELSE <<>>)
    ELSE IF b.isolateErgOnChange
         THEN (IF rest > 0 THEN <<MkOutput(rest, b.changeAddress, NoTokens, TRUE)>>
               ELSE <<>>)
              \o [i \in 1..Len(chunks) |->
                    MkOutput(MIN_BOX_VALUE, b.changeAddress,
                             ChunkAssets(left, chunks[i]), TRUE)]
         ELSE [i \in 1..Len(chunks) |->
                 MkOutput(IF i = 1 THEN MIN_BOX_VALUE + rest ELSE MIN_BOX_VALUE,
                          b.changeAddress, ChunkAssets(left, chunks[i]), TRUE)]

\* variant: the native rest beyond the boxes' minimum is not returned as change
ChangeWith_DropRest(b, left, chunks) == PackChange(b, left, chunks, 0)

ChangeWith(b, left, chunks) ==
    PackChange(b, left, chunks, left[ERG_TOKEN_ID] - Len(chunks) * MIN_BOX_VALUE)

\* the change outputs for a leftover that funds them
ChangeOutputs(b, left) == ChangeWith(b, left, ChangeChunks(b, left))

\* select for the target; while the leftover cannot fund the change outputs at the
\* protocol minimum, select again for target + minimum; a selection that cannot be
\* covered ends the build with the selector's error
RECURSIVE SelectWithChange(_, _, _, _)
RECURSIVE FundChange(_, _, _, _, _, _)
RECURSIVE CheckFunded(_, _, _, _)

SelectWithChange(b, target, extra, fuel) ==
    CheckFunded(b, target, fuel, Select(b, [target EXCEPT ![ERG_TOKEN_ID] = @ + extra]))

CheckFunded(b, target, fuel, sel) ==
    IF ~sel.ok THEN sel
    ELSE FundChange(b, target, fuel, sel,
                    SumBoxes(sel.inputs, ERG_TOKEN_ID) - target[ERG_TOKEN_ID],
                    MinChangeValue(b, Leftover(sel.inputs, target)))

FundChange(b, target, fuel, sel, erg, need) ==
    IF erg >= need THEN sel
    ELSE IF fuel = 0 THEN Selection(FALSE, "depletion", <<>>)
         ELSE SelectWithChange(b, target, need, fuel - 1)

NoDraft == [inputs |-> <<>>, outputs |-> <<>>]

BuildResult(isOk, reason, d) == [ok |-> isOk, err |-> reason, draft |-> d]

\* the swap extension: the updated swap box as output
BabelOutput(p) ==
    MkOutput(Box(p.box).value - p.amount * Box(p.box).rate,
             Box(p.box).ergoTree,
             [Box(p.box).assets EXCEPT ![p.tokenId] = @ + p.amount],
             FALSE)

\* the outputs before change: requested, plugin outputs, fee
BaseOutputs(b) ==
    b.outputs
      \o [i \in 1..Len(b.plugins) |-> BabelOutput(b.plugins[i])]
      \o (IF b.fee = -1 THEN <<>> ELSE <<MkOutput(b.fee, FEE_CONTRACT, NoTokens, FALSE)>>)

\* the builder after its plugins ran: the swap box is a pinned input
WithPluginInputs(b) ==
    [b EXCEPT !.inputs = @ \o [i \in 1..Len(b.plugins) |-> b.plugins[i].box],
              !.ensure = @ \cup {b.plugins[i].box : i \in 1..Len(b.plugins)}]

OutputsTarget(outs) == [t \in AllAssets |-> SumOutputs(outs, t)]

MakeDraft(b, outs, target, sel) ==
    IF ~sel.ok THEN BuildResult(FALSE, sel.err, NoDraft)
    ELSE BuildResult(TRUE, "",
            [inputs  |-> sel.inputs,
             outputs |-> outs \o ChangeOutputs(b, Leftover(sel.inputs, target))])

BuildFor(b, outs, target) ==
    IF \E i \in 1..Len(outs) : outs[i].value <= 0
    THEN BuildResult(FALSE, "malformed", NoDraft)
    ELSE IF HasDuplicates(b.inputs)
    THEN BuildResult(FALSE, "malformed", NoDraft)
    ELSE MakeDraft(b, outs, target, SelectWithChange(b, target, 0, Len(b.inputs) + 1))

BuildWith(b, outs) == BuildFor(b, outs, OutputsTarget(outs))

\* TransactionBuilder.build
Build(b) == BuildWith(WithPluginInputs(b), BaseOutputs(b))

(***************************************************************************)
(* Wallet store (module-level `wallet`), addresses.                        *)
(***************************************************************************)
WalletId == {1, 2}
WalletType == {"Standard", "ReadOnly", "Ledger"}

\* the active wallet's record in the store; index -1: changeAddress.index undefined
WalletStore(w) ==
    IF w = 1 THEN [id |-> 1, type |-> "Standard", publicKey |-> "pk1", changeIndex |-> 1]
    ELSE [id |-> 2, type |-> "Ledger", publicKey |-> "pk2", changeIndex |-> -1]

\* hdKeyPool.get(publicKey).deriveAddress(index).script
DeriveAddress(pk, index) ==
    IF pk = "pk1"
    THEN (CASE index = 0 -> "addr1" [] index = 1 -> "addr1_1" [] OTHER -> "addr1_2")
    ELSE (CASE index = 0 -> "addr2" [] index = 1 -> "addr2_1" [] OTHER -> "addr2_2")

\* variant: the change index of the wallet is ignored
safeGetChangeAddress_Index0(w) == DeriveAddress(WalletStore(w).publicKey, 0)

safeGetChangeAddress(w) ==
    LET index == IF WalletStore(w).changeIndex = -1 THEN 0 ELSE WalletStore(w).changeIndex
    IN DeriveAddress(WalletStore(w).publicKey, index)

(***************************************************************************)
(* getContext                                                              *)
(***************************************************************************)
\* variant: a missing height is not checked
getContext_NoHeightCheck(boxes, height) ==
    IF boxes.threw \/ height = -1
    THEN [ok |-> FALSE, err |-> "connectivity", inputs |-> <<>>, currentHeight |-> 0]
    ELSE IF boxes.list = <<>>
    THEN [ok |-> FALSE, err |-> "connectivity", inputs |-> <<>>, currentHeight |-> 0]
    ELSE [ok |-> TRUE, err |-> "", inputs |-> boxes.list, currentHeight |-> height]

\* boxes: [threw, list] answer of fetchBoxes; height: -1 the fetch threw,
\* 0 no height (undefined), otherwise the height
getContext(boxes, height) ==
    IF boxes.threw \/ height = -1
    THEN [ok |-> FALSE, err |-> "connectivity", inputs |-> <<>>, currentHeight |-> 0]
    ELSE IF boxes.list = <<>>
    THEN [ok |-> FALSE, err |-> "connectivity", inputs |-> <<>>, currentHeight |-> 0]
    ELSE IF height = 0
    THEN [ok |-> FALSE, err |-> "connectivity", inputs |-> <<>>, currentHeight |-> 0]
    ELSE [ok |-> TRUE, err |-> "", inputs |-> boxes.list, currentHeight |-> height]

(***************************************************************************)
(* The builder under construction.                                         *)
(***************************************************************************)
\* new TransactionBuilder(height): the library's defaults
NewBuilder(height) ==
    [creationHeight |-> height, inputs |-> <<>>, ensure |-> {}, outputs |-> <<>>,
     fee |-> -1, changeAddress |-> "", plugins |-> <<>>,
     maxTokensPerChangeBox |-> 120, isolateErgOnChange |-> FALSE,
     strategy |-> "accumulative", orderByHeight |-> FALSE]

From(b, boxes, ensureInclusion) ==
    [b EXCEPT !.inputs = @ \o boxes,
              !.ensure = IF ensureInclusion THEN @ \cup Range(boxes) ELSE @]

\* variant: the Ledger profile gets the general change limit
setSelectionAndChangeStrategy_NoLedgerLimit(b, walletType) ==
    IF walletType = "Ledger"
    THEN [b EXCEPT !.isolateErgOnChange = TRUE,
                   !.maxTokensPerChangeBox = SAFE_MAX_CHANGE_TOKEN_LIMIT,
                   !.strategy = "cherry"]
    ELSE [b EXCEPT !.maxTokensPerChangeBox = SAFE_MAX_CHANGE_TOKEN_LIMIT,
                   !.orderByHeight = TRUE]

setSelectionAndChangeStrategy(b, walletType) ==
    IF walletType = "Ledger"
    THEN [b EXCEPT !.isolateErgOnChange = TRUE, !.maxTokensPerChangeBox = 1,
                   !.strategy = "cherry"]
    ELSE [b EXCEPT !.maxTokensPerChangeBox = SAFE_MAX_CHANGE_TOKEN_LIMIT,
                   !.orderByHeight = TRUE]

(***************************************************************************)
(* Swap-box discovery (chains/ergo/babelFees).                             *)
(***************************************************************************)
getNanoErgsPerTokenRate(box) == Box(box).rate

\* fetchBabelBoxes keeps the boxes trading tokenId at a rate not below `price`
FilterBabelBoxes(list, tokenId, price) ==
    FilterSeq(list, {id \in Range(list) :
        /\ Box(id).ergoTree = "babel:A" /\ tokenId = "A"
        /\ getNanoErgsPerTokenRate(id) >= price})

\* the reserve left after the trade still makes a box
HasReserve(box, amount) ==
    Box(box).value - amount * getNanoErgsPerTokenRate(box) >= MIN_BOX_VALUE

\* index of the best rate in `ok`, the first listed on a tie
BestIndex(ok) ==
    CHOOSE i \in 1..Len(ok) :
        /\ \A j \in 1..Len(ok) :
              getNanoErgsPerTokenRate(ok[j]) <= getNanoErgsPerTokenRate(ok[i])
        /\ \A j \in 1..(i - 1) :
              getNanoErgsPerTokenRate(ok[j]) < getNanoErgsPerTokenRate(ok[i])

BestOf(ok) == IF ok = <<>> THEN 0 ELSE ok[BestIndex(ok)]

\* best rate among the boxes with enough reserve; 0: none qualifies
selectBestBabelBox(list, amount) ==
    BestOf(FilterSeq(list, {id \in Range(list) : HasReserve(id, amount)}))

(***************************************************************************)
(* setFee                                                                  *)
(***************************************************************************)
\* variant: every fee is taken for a swap fee
isBabelFee_Always(fee) == TRUE

isBabelFee(fee) == fee.tokenId # ERG_TOKEN_ID

FeeResult(isOk, reason, newBox, assigned, b) ==
    [ok |-> isOk, err |-> reason, box |-> newBox, wrote |-> assigned, builder |-> b]

\* the minimum-box-value adjustment of the swap fee
AdjustedFee(sending, feeNanoErgs) ==
    IF /\ sending > 0
       /\ sending <= MIN_BOX_VALUE
       /\ sending <= feeNanoErgs - SAFE_MIN_FEE_VALUE
    THEN feeNanoErgs - MIN_BOX_VALUE
    ELSE feeNanoErgs

\* variant: the fee is set from the selected box but the swap extension is not applied
setFeeBabel_NoExtend(b, fee, oldBox, tokenUnits, selectedBox) ==
    IF selectedBox = 0
    THEN FeeResult(FALSE, "liquidity", oldBox, FALSE, b)
    ELSE FeeResult(TRUE, "", selectedBox, TRUE,
            [b EXCEPT
               !.fee = AdjustedFee(SumOutputs(b.outputs, ERG_TOKEN_ID),
                                   tokenUnits * getNanoErgsPerTokenRate(selectedBox))])

\* variant: fee.box is assigned before the missing box is detected
setFeeBabel_WriteFirst(b, fee, oldBox, tokenUnits, selectedBox) ==
    IF selectedBox = 0
    THEN FeeResult(FALSE, "liquidity", selectedBox, TRUE, b)
    ELSE FeeResult(TRUE, "", selectedBox, TRUE,
            [b EXCEPT
               !.plugins = @ \o <<[box |-> selectedBox, tokenId |-> fee.tokenId,
                                   amount |-> tokenUnits]>>,
               !.fee = AdjustedFee(SumOutputs(b.outputs, ERG_TOKEN_ID),
                                   tokenUnits * getNanoErgsPerTokenRate(selectedBox))])

\* the swap branch once the box is selected
setFeeBabel(b, fee, oldBox, tokenUnits, selectedBox) ==
    IF selectedBox = 0
    THEN FeeResult(FALSE, "liquidity", oldBox, FALSE, b)
    ELSE FeeResult(TRUE, "", selectedBox, TRUE,
            [b EXCEPT
               !.plugins = @ \o <<[box |-> selectedBox, tokenId |-> fee.tokenId,
                                   amount |-> tokenUnits]>>,
               !.fee = AdjustedFee(SumOutputs(b.outputs, ERG_TOKEN_ID),
                                   tokenUnits * getNanoErgsPerTokenRate(selectedBox))])

\* the part of setFee after the swap-box lookup answered with `boxes` (already
\* filtered by the minimum rate); for a native fee no lookup is made and `boxes`
\* is not read.  box: the new value of fee.box, wrote: fee.box was assigned
setFee(b, fee, oldBox, boxes) ==
    IF ~isBabelFee(fee)
    THEN FeeResult(TRUE, "", oldBox, FALSE,
                   [b EXCEPT !.fee = ToInt(undecimalize(fee.value, ERG_DECIMALS))])
    ELSE setFeeBabel(b, fee, oldBox, ToInt(undecimalize(fee.value, fee.decimals)),
                     selectBestBabelBox(boxes, ToInt(undecimalize(fee.value, fee.decimals))))

(***************************************************************************)
(* createP2PTransaction / createRBFCancellationTransaction: the builders   *)
(***************************************************************************)
getSendingNanoErgs(assets) ==
    IF assets.erg.c # 0 THEN ToInt(undecimalize(assets.erg, ERG_DECIMALS)) ELSE 0

\* the native value of the payment output
PaymentValue(r) ==
    IF getSendingNanoErgs(r.assets) = 0 /\ isBabelFee(r.fee)
    THEN MIN_BOX_VALUE
    ELSE getSendingNanoErgs(r.assets)

\* the tokens of the payment output
PaymentTokens(r) ==
    [t \in Token |->
        IF t = "A" /\ r.assets.tokA.c # 0
        THEN ToInt(undecimalize(r.assets.tokA, r.assets.decimalsA))
        ELSE 0]

\* the builder of createP2PTransaction before setFee
P2PBuilder(r, inputs, height, changeAddress) ==
    [From(NewBuilder(height), inputs, FALSE) EXCEPT
        !.outputs = <<MkOutput(PaymentValue(r), r.recipientAddress, PaymentTokens(r),
                               FALSE)>>,
        !.changeAddress = changeAddress]

\* the wallet inputs that the pending transaction does not spend
OtherInputs(tx, inputs) == FilterSeq(inputs, Range(inputs) \ Range(tx.ownInputs))

\* variant: the own inputs are offered to the selector without being pinned
RBFBuilder_NoPin(tx, inputs, height, changeAddress) ==
    [From(From(NewBuilder(height), tx.ownInputs, FALSE), OtherInputs(tx, inputs), FALSE)
        EXCEPT
        !.fee = ToInt(undecimalize(tx.fee, ERG_DECIMALS)) + SAFE_MIN_FEE_VALUE,
        !.changeAddress = changeAddress]

\* the builder of createRBFCancellationTransaction before the strategy is set
RBFBuilder(tx, inputs, height, changeAddress) ==
    [From(From(NewBuilder(height), tx.ownInputs, TRUE), OtherInputs(tx, inputs), FALSE)
        EXCEPT
        !.fee = ToInt(undecimalize(tx.fee, ERG_DECIMALS)) + SAFE_MIN_FEE_VALUE,
        !.changeAddress = changeAddress]

(***************************************************************************)
(* Requests.                                                               *)
(***************************************************************************)
BN(c, e) == [c |-> c, e |-> e]

\* FeeSettings as the fee selector emits them (no box); decimals 0: no assetInfo scale
FeeOptions ==
    { [tokenId |-> "ERG", value |-> BN(11, -4), nanoErgsPerToken |-> 0, decimals |-> 0],
      [tokenId |-> "A", value |-> BN(110, 0), nanoErgsPerToken |-> 100, decimals |-> 2],
      [tokenId |-> "A", value |-> BN(55, 0),  nanoErgsPerToken |-> 100, decimals |-> 2],
      [tokenId |-> "A", value |-> BN(210, 0), nanoErgsPerToken |-> 100, decimals |-> 2],
      [tokenId |-> "A", value |-> BN(170, 0), nanoErgsPerToken |-> 100, decimals |-> 2],
      [tokenId |-> "A", value |-> BN(110, 0), nanoErgsPerToken |-> 300, decimals |-> 2] }

\* TxAssetAmount[]: the ERG entry and the entry of asset A (coefficient 0: no amount)
AssetOptions ==
    { [erg |-> e, tokA |-> a, decimalsA |-> 2] :
        e \in {BN(0, 0), BN(5, -4), BN(2, -3), BN(9, -3)},
        a \in {BN(0, 0), BN(100, 0)} }

P2PRequests ==
    { [recipientAddress |-> "recipient", assets |-> a, fee |-> f, walletType |-> wt] :
        a \in AssetOptions, f \in FeeOptions, wt \in WalletType }

NoReq == [recipientAddress |-> "", assets |-> [erg |-> BN(0, 0), tokA |-> BN(0, 0),
                                              decimalsA |-> 0],
          fee |-> [tokenId |-> "ERG", value |-> BN(0, 0), nanoErgsPerToken |-> 0,
                   decimals |-> 0],
          walletType |-> "Standard"]

\* duplicate-free lists over S of length at most n
Lists(S, n) ==
    UNION { {s \in [1..k -> S] : \A i, j \in 1..k : i # j => s[i] # s[j]} : k \in 0..n }

\* UnconfirmedTransactionSummary of a pending transaction of wallet w
RBFRequests(w) ==
    { [ownInputs |-> o, fee |-> BN(11, -4)] :
        o \in {s \in Lists(WalletBoxes(w), 2) :
                 s # <<>> /\ \A i \in 1..(Len(s) - 1) : s[i] < s[i + 1]} }

NoTx == [ownInputs |-> <<>>, fee |-> BN(0, 0)]

\* answers of the context provider
BoxesAnswers(w) ==
    {[threw |-> TRUE, list |-> <<>>]}
      \cup {[threw |-> FALSE, list |-> l] : l \in Lists(WalletBoxes(w), MaxFetched)}
HeightAnswers == {-1, 0, ChainHeight}
NoBoxes == [threw |-> FALSE, list |-> <<>>]

\* answers of the swap-box query: the swap boxes on chain, or a failed query
BabelAnswers ==
    {[threw |-> TRUE, list |-> <<>>]}
      \cup {[threw |-> FALSE, list |-> l] : l \in Lists(BabelBoxes, Cardinality(BabelBoxes))}

(***************************************************************************)
(* State.                                                                  *)
(***************************************************************************)
VARIABLES
    wallet,      \* id of the active wallet in the store
    pc,          \* "idle", "context" (awaiting getContext), "babel" (awaiting
                 \* fetchBabelBoxes), "done", "failed"
    op,          \* "none", "p2p", "rbf"
    req,         \* arguments of createP2PTransaction
    tx,          \* argument of createRBFCancellationTransaction
    ctxWallet,   \* wallet.id passed to fetchBoxes
    boxesAns,    \* answer of fetchBoxes
    heightAns,   \* answer of getHeight
    asmWallet,   \* id of the active wallet when the call resumed after getContext
    babelAns,    \* answer of the swap-box query
    builder,     \* the TransactionBuilder of the call
    feeBox,      \* FeeSettings.box (0: undefined)
    feeWrites,   \* number of assignments to FeeSettings.box in this call
    nFetch,      \* number of context fetches issued by this call
    nLookup,     \* number of swap-box lookups issued by this call
    draft,       \* the returned draft
    err,         \* the reason of a failed call
    stages,      \* the build stages the call has passed, in the order the code ran them
    input,       \* argument of a display / address function under evaluation
    output,      \* its result
    auth,        \* the state of the dApp authentication view (AuthView.vue)
    assetInfo,   \* the assetInfo table and the addIfNotExists calls in flight
    feeSelector, \* the state of the fee selector (TransactionFeeConfig.vue)
    wizard       \* the state of the import-wallet wizard (ImportWalletView.vue)

vars == <<wallet, pc, op, req, tx, ctxWallet, boxesAns, heightAns, asmWallet, babelAns,
          builder, feeBox, feeWrites, nFetch, nLookup, draft, err, stages, input, output,
          auth, assetInfo, feeSelector, wizard>>

\* the state of the views and of the assetInfo table
viewVars == <<auth, assetInfo, feeSelector, wizard>>

\* no function under evaluation
NoInput == [kind |-> "none"]
NoOutput == [kind |-> "none"]

\* the authentication view is not open
NoAuth ==
    [phase |-> "off", queue |-> FALSE, request |-> FALSE, conn |-> 0, walletId |-> 0,
     loadPending |-> FALSE, storeType |-> "Standard", passwordRequired |-> TRUE,
     password |-> "", calls |-> 0, signing |-> 0, listener |-> FALSE,
     window |-> "unloaded", resolutions |-> <<>>, signedAs |-> {}]

\* no addIfNotExists call, an empty table
NoAssetInfo == [phase |-> "off", db0 |-> <<>>, db |-> <<>>, calls |-> <<>>]

\* the fee selector is not shown
NoFeeSelector ==
    [phase |-> "off", ergOnly |-> FALSE, balance |-> {}, assets |-> <<>>,
     loading |-> FALSE, runs |-> <<>>]

\* the wizard is not open
NoWizard ==
    [phase |-> "off", step |-> 1, walletType |-> "standard", walletName |-> "",
     password |-> "", confirmPassword |-> "", xpk |-> "", mnemonic |-> "",
     loading |-> FALSE, attempts |-> <<>>, navigated |-> FALSE, advances |-> {},
     puts |-> {}]

\* no view is open, no table call is in flight
ViewsIdle ==
    /\ auth = NoAuth
    /\ assetInfo = NoAssetInfo
    /\ feeSelector = NoFeeSelector
    /\ wizard = NoWizard

Init ==
    /\ wallet \in WalletId
    /\ pc = "idle"
    /\ op = "none"
    /\ req = NoReq
    /\ tx = NoTx
    /\ ctxWallet = 0
    /\ boxesAns = NoBoxes
    /\ heightAns = 0
    /\ asmWallet = 0
    /\ babelAns = NoBoxes
    /\ builder = NewBuilder(0)
    /\ feeBox = 0
    /\ feeWrites = 0
    /\ nFetch = 0
    /\ nLookup = 0
    /\ draft = NoDraft
    /\ err = ""
    /\ stages = <<>>
    /\ input = NoInput
    /\ output = NoOutput
    /\ ViewsIdle

(***************************************************************************)
(* Actions.                                                                *)
(***************************************************************************)
\* the call fails: the exception reaches the caller, nothing is returned
Fail(reason, b, trail) ==
    /\ pc' = "failed"
    /\ err' = reason
    /\ builder' = b
    /\ draft' = NoDraft
    /\ stages' = Append(trail, "Failed")

\* the result of unsigned.build().toEIP12Object() reaches the caller
\* build() selects the inputs, computes the change and assembles the draft
Deliver(configured, built, trail) ==
    IF built.ok
    THEN /\ pc' = "done"
         /\ err' = ""
         /\ builder' = configured
         /\ draft' = built.draft
         /\ stages' = trail \o <<"Selected", "ChangeComputed", "Assembled">>
    ELSE Fail(built.err, configured, trail)

Finish(configured, trail) == Deliver(configured, Build(configured), trail)

\* setSelectionAndChangeStrategy(...) then unsigned.build().toEIP12Object()
Assemble(b, walletType, trail) ==
    Finish(setSelectionAndChangeStrategy(b, walletType), trail)

\* the rest of createP2PTransaction once setFee has returned or thrown
AfterSetFee(f, trail) ==
    /\ feeBox' = f.box
    /\ feeWrites' = feeWrites + (IF f.wrote THEN 1 ELSE 0)
    /\ IF f.ok THEN Assemble(f.builder, req.walletType, Append(trail, "FeeResolved"))
       ELSE Fail(f.err, f.builder, trail)

\* createP2PTransaction is called: getContext issues both fetches
CallP2P ==
    /\ pc = "idle"
    /\ \E r \in P2PRequests : req' = r
    /\ op' = "p2p"
    /\ pc' = "context"
    /\ ctxWallet' = WalletStore(wallet).id
    /\ nFetch' = 1
    /\ nLookup' = 0
    /\ feeBox' = 0
    /\ feeWrites' = 0
    /\ stages' = <<"Start">>
    /\ UNCHANGED <<wallet, tx, boxesAns, heightAns, asmWallet, babelAns, builder, draft, err,
                   input, output,
                   viewVars>>

\* createRBFCancellationTransaction is called for a pending transaction of the
\* active wallet
CallRBF ==
    /\ pc = "idle"
    /\ \E t \in RBFRequests(wallet) : tx' = t
    /\ op' = "rbf"
    /\ pc' = "context"
    /\ ctxWallet' = WalletStore(wallet).id
    /\ nFetch' = 1
    /\ nLookup' = 0
    /\ feeBox' = 0
    /\ feeWrites' = 0
    /\ stages' = <<"Start">>
    /\ UNCHANGED <<wallet, req, boxesAns, heightAns, asmWallet, babelAns, builder, draft, err,
                   input, output,
                   viewVars>>

\* createP2PTransaction with its builder: setFee, which suspends on the swap-box
\* lookup for a non-native fee
P2PWithBuilder(b, trail) ==
    IF b.outputs[1].value <= 0
    THEN Fail("malformed", builder, trail) /\ UNCHANGED <<feeBox, feeWrites, nLookup>>
    ELSE IF isBabelFee(req.fee)
    THEN /\ pc' = "babel"
         /\ nLookup' = nLookup + 1
         /\ builder' = b
         /\ stages' = trail
         /\ UNCHANGED <<feeBox, feeWrites, draft, err>>
    ELSE /\ UNCHANGED nLookup
         /\ AfterSetFee(setFee(b, req.fee, feeBox, <<>>), trail)

P2PAfterContext(ctx) ==
    IF ~ctx.ok
    THEN Fail(ctx.err, builder, stages) /\ UNCHANGED <<feeBox, feeWrites, nLookup>>
    ELSE P2PWithBuilder(P2PBuilder(req, ctx.inputs, ctx.currentHeight,
                                   safeGetChangeAddress(wallet)),
                        Append(stages, "ContextFetched"))

\* createP2PTransaction resumes after getContext
ContextReturnP2P ==
    /\ pc = "context" /\ op = "p2p"
    /\ \E ba \in BoxesAnswers(ctxWallet), ha \in HeightAnswers :
         /\ boxesAns' = ba
         /\ heightAns' = ha
         /\ P2PAfterContext(getContext(ba, ha))
    /\ asmWallet' = WalletStore(wallet).id
    /\ UNCHANGED <<wallet, op, req, tx, ctxWallet, babelAns, nFetch, input, output,
                   viewVars>>

\* setFee resumes after fetchBabelBoxes, createP2PTransaction runs to its end
BabelBoxesReturn ==
    /\ pc = "babel"
    /\ \E ans \in BabelAnswers :
         /\ babelAns' = ans
         /\ IF ans.threw
            THEN Fail("connectivity", builder, stages) /\ UNCHANGED <<feeBox, feeWrites>>
            ELSE AfterSetFee(setFee(builder, req.fee, feeBox,
                                    FilterBabelBoxes(ans.list, req.fee.tokenId,
                                                     req.fee.nanoErgsPerToken)),
                             stages)
    /\ UNCHANGED <<wallet, op, req, tx, ctxWallet, boxesAns, heightAns, asmWallet, nFetch,
                   nLookup, input, output,
                   viewVars>>

RBFAfterContext(ctx) ==
    IF ~ctx.ok THEN Fail(ctx.err, builder, stages)
    ELSE Assemble(RBFBuilder(tx, ctx.inputs, ctx.currentHeight,
                             safeGetChangeAddress(wallet)),
                  WalletStore(wallet).type,
                  stages \o <<"ContextFetched", "FeeResolved">>)

\* createRBFCancellationTransaction resumes after getContext and runs to its end
ContextReturnRBF ==
    /\ pc = "context" /\ op = "rbf"
    /\ \E ba \in BoxesAnswers(ctxWallet), ha \in HeightAnswers :
         /\ boxesAns' = ba
         /\ heightAns' = ha
         /\ RBFAfterContext(getContext(ba, ha))
    /\ asmWallet' = WalletStore(wallet).id
    /\ UNCHANGED <<wallet, op, req, tx, ctxWallet, babelAns, feeBox, feeWrites, nFetch,
                   nLookup, input, output,
                   viewVars>>

\* the user activates another wallet while a call may be suspended
SwitchWallet ==
    /\ \E w \in WalletId \ {wallet} : wallet' = w
    /\ UNCHANGED <<pc, op, req, tx, ctxWallet, boxesAns, heightAns, asmWallet, babelAns,
                   builder, feeBox, feeWrites, nFetch, nLookup, draft, err, stages, input,
                   output, viewVars>>

\* the caller has taken the result; the next call starts from a fresh state
Return ==
    /\ pc \in {"done", "failed"}
    /\ pc' = "idle"
    /\ op' = "none"
    /\ req' = NoReq
    /\ tx' = NoTx
    /\ ctxWallet' = 0
    /\ boxesAns' = NoBoxes
    /\ heightAns' = 0
    /\ asmWallet' = 0
    /\ babelAns' = NoBoxes
    /\ builder' = NewBuilder(0)
    /\ feeBox' = 0
    /\ feeWrites' = 0
    /\ nFetch' = 0
    /\ nLookup' = 0
    /\ draft' = NoDraft
    /\ err' = ""
    /\ stages' = <<>>
    /\ UNCHANGED <<wallet, input, output,
                   viewVars>>

Next ==
    \/ CallP2P
    \/ CallRBF
    \/ ContextReturnP2P
    \/ ContextReturnRBF
    \/ BabelBoxesReturn
    \/ SwitchWallet
    \/ Return

Spec == Init /\ [][Next]_vars

(***************************************************************************)
(* Properties.                                                             *)
(***************************************************************************)
Returned == pc = "done"
Ended == pc \in {"done", "failed"}

\* the outputs of the draft paying to `script`
OutputsTo(script) == {i \in 1..Len(draft.outputs) : draft.outputs[i].ergoTree = script}

\* the swap boxes among the inputs of the draft
SwapInputs == {i \in 1..Len(draft.inputs) : Box(draft.inputs[i]).owner = 0}

\* the smallest units of a display amount with `decimals` decimals
Units(v, decimals) == v.c * Pow10(v.e + decimals)

\* C1: in every returned draft the inputs' native value equals the outputs' native
\* value (payment, fee, change, swap-box output) and, no asset being minted, every
\* asset's input amount equals its output amount.
C1_Conservation ==
    Returned =>
        \A t \in AllAssets : SumBoxes(draft.inputs, t) = SumOutputs(draft.outputs, t)

\* a swap-fee payment whose change carries assets was returned
C1_Witness ==
    /\ Returned /\ op = "p2p" /\ isBabelFee(req.fee)
    /\ \E i \in 1..Len(draft.outputs) :
          draft.outputs[i].change /\ draft.outputs[i].assets["A"] > 0
    /\ Len(draft.inputs) >= 2

\* C2: a returned draft whose fee asset is not the native asset has exactly one swap
\* box among its inputs and exactly one output with that box's script; the output's
\* native value is lower than the input's by the positive amount traded (fee-token
\* units times the box's rate), its fee-token balance higher by the fee-token units.
C2_SwapPair ==
    (Returned /\ op = "p2p" /\ isBabelFee(req.fee)) =>
        /\ Cardinality(SwapInputs) = 1
        /\ \A i \in SwapInputs :
             LET id     == draft.inputs[i]
                 units  == Units(req.fee.value, req.fee.decimals)
                 traded == units * Box(id).rate
             IN /\ Cardinality(OutputsTo(Box(id).ergoTree)) = 1
                /\ traded > 0
                /\ \A o \in OutputsTo(Box(id).ergoTree) :
                     /\ draft.outputs[o].value = Box(id).value - traded
                     /\ draft.outputs[o].value < Box(id).value
                     /\ draft.outputs[o].assets[req.fee.tokenId]
                          = Box(id).assets[req.fee.tokenId] + units

\* a swap-fee draft was returned
C2_Witness ==
    /\ Returned /\ op = "p2p" /\ isBabelFee(req.fee)
    /\ SwapInputs # {}

\* C3: with the native asset as fee asset no swap-box lookup is made, no swap
\* extension is applied, FeeSettings.box is left as it was, a returned draft has no
\* swap-box input or output, and its fee output is the display amount in smallest
\* units.
C3_NativeFee ==
    (Ended /\ op = "p2p" /\ req.fee.tokenId = ERG_TOKEN_ID) =>
        /\ nLookup = 0
        /\ builder.plugins = <<>>
        /\ feeWrites = 0 /\ feeBox = 0
        /\ Returned =>
             /\ SwapInputs = {}
             /\ OutputsTo("babel:A") = {}
             /\ Cardinality(OutputsTo(FEE_CONTRACT)) = 1
             /\ \A o \in OutputsTo(FEE_CONTRACT) :
                  draft.outputs[o].value = Units(req.fee.value, ERG_DECIMALS)

\* a native-fee draft was returned
C3_Witness ==
    /\ Returned /\ op = "p2p" /\ req.fee.tokenId = ERG_TOKEN_ID
    /\ OutputsTo(FEE_CONTRACT) # {}

\* C4: a returned cancellation draft has every own input of the original
\* transaction among its inputs, and its fee is the original fee plus
\* SAFE_MIN_FEE_VALUE, strictly more than the original fee.
C4_Cancellation ==
    (Returned /\ op = "rbf") =>
        /\ Range(tx.ownInputs) \subseteq Range(draft.inputs)
        /\ Cardinality(OutputsTo(FEE_CONTRACT)) = 1
        /\ \A o \in OutputsTo(FEE_CONTRACT) :
             /\ draft.outputs[o].value = Units(tx.fee, ERG_DECIMALS) + SAFE_MIN_FEE_VALUE
             /\ draft.outputs[o].value > Units(tx.fee, ERG_DECIMALS)

\* a cancellation was returned although the other wallet outputs alone, older than
\* the pinned one, cover the new fee
C4_Witness ==
    /\ Returned /\ op = "rbf"
    /\ tx.ownInputs = <<3>>
    /\ 1 \in Range(boxesAns.list)

\* the change address of wallet w: the address at its change index, index 0 if unset
ChangeAddressOf(w) ==
    DeriveAddress(WalletStore(w).publicKey,
                  IF WalletStore(w).changeIndex = -1 THEN 0 ELSE WalletStore(w).changeIndex)

NewFee == Units(tx.fee, ERG_DECIMALS) + SAFE_MIN_FEE_VALUE

\* the own inputs alone pay the new fee and fund a minimum change box for the native
\* rest and for each asset they carry
OwnInputsCover ==
    SumBoxes(tx.ownInputs, ERG_TOKEN_ID)
      >= NewFee + MIN_BOX_VALUE
           * (1 + Cardinality({t \in Token : SumBoxes(tx.ownInputs, t) > 0}))

\* C6: a cancellation succeeds whenever the own inputs alone cover the new fee and
\* the minimum change value and both context fetches answered, also when the list of
\* other spendable outputs is empty.
C6_OwnInputsSuffice ==
    (Ended /\ op = "rbf" /\ ~boxesAns.threw /\ heightAns > 0 /\ OwnInputsCover)
        => Returned

\* the wallet type that decides selection and change packing of the call
ProfileType == IF op = "p2p" THEN req.walletType ELSE WalletStore(asmWallet).type

ProfileLimit == IF ProfileType = "Ledger" THEN 1 ELSE SAFE_MAX_CHANGE_TOKEN_LIMIT

ChangeOutputsOfDraft == {i \in 1..Len(draft.outputs) : draft.outputs[i].change}

Qualifies(id) ==
    /\ Box(id).rate >= req.fee.nanoErgsPerToken
    /\ Box(id).value - Units(req.fee.value, req.fee.decimals) * Box(id).rate
         >= MIN_BOX_VALUE

NoneQualifies == \A id \in Range(babelAns.list) : ~Qualifies(id)

\* C8: when the fee asset is not native and the lookup answered without a qualifying
\* swap box, the call fails with the liquidity error after exactly one lookup: no
\* swap extension and no fee on the builder, FeeSettings.box not written, no draft.
C8_NoLiquidity ==
    (Ended /\ op = "p2p" /\ nLookup > 0 /\ ~babelAns.threw /\ NoneQualifies) =>
        /\ pc = "failed" /\ err = "liquidity"
        /\ nLookup = 1
        /\ builder.plugins = <<>> /\ builder.fee = -1
        /\ feeWrites = 0 /\ feeBox = 0
        /\ draft = NoDraft

\* the lookup listed swap boxes, none of them qualifying
C8_Witness ==
    /\ pc = "failed" /\ err = "liquidity"
    /\ babelAns.list # <<>>

\* C9: when the spendable-outputs fetch or the height fetch fails, alone or both,
\* the call fails with the connectivity error after one round of fetches, before
\* any builder exists (no selection, no fee resolution, no assembly).
C9_ContextFailure ==
    (pc \in {"babel", "done", "failed"} /\ (boxesAns.threw \/ heightAns <= 0)) =>
        /\ pc = "failed" /\ err = "connectivity"
        /\ nFetch = 1 /\ nLookup = 0
        /\ builder = NewBuilder(0)
        /\ feeWrites = 0
        /\ draft = NoDraft

\* the outputs were fetched, the height was not
C9_Witness ==
    /\ pc = "failed"
    /\ ~boxesAns.threw /\ boxesAns.list # <<>>
    /\ heightAns <= 0

\* the fetched outputs cover the native value and the assets of the request and fee
\* of a native-fee payment
FetchedCover ==
    /\ SumBoxes(boxesAns.list, ERG_TOKEN_ID)
         >= Units(req.assets.erg, ERG_DECIMALS) + Units(req.fee.value, ERG_DECIMALS)
    /\ SumBoxes(boxesAns.list, "A") >= Units(req.assets.tokA, req.assets.decimalsA)

\* C10: a payment whose fetched outputs, however many, do not cover the request
\* fails with the depletion error, and the connectivity error is reported only when
\* a fetch failed.
C10_Depletion ==
    /\ (pc = "failed" /\ op = "p2p" /\ req.fee.tokenId = ERG_TOKEN_ID
          /\ ~boxesAns.threw /\ heightAns > 0
          /\ Units(req.assets.erg, ERG_DECIMALS) > 0 /\ ~FetchedCover)
         => err = "depletion"
    /\ (pc = "failed" /\ err = "connectivity")
         => (boxesAns.threw \/ heightAns <= 0 \/ babelAns.threw)

\* the orders in which the context provider may list the outputs it returned
Reorderings(list) == {l \in Lists(Range(list), Len(list)) : Len(l) = Len(list)}

\* C11: selection is deterministic: a payment built from the same set of unspent
\* outputs listed in any other order, with the same requirement and strategy,
\* selects the same subset of inputs, outputs of equal creation height included.
C11_Determinism ==
    (Returned /\ op = "p2p") =>
        \A l \in Reorderings(builder.inputs) :
            Range(Build([builder EXCEPT !.inputs = l]).draft.inputs) = Range(draft.inputs)

\* C12: a payment that failed, at whatever step, left the caller's FeeSettings as
\* they were before the call (box undefined) and returned no draft.
C12_NoVisibleState ==
    (pc = "failed" /\ op = "p2p") => (feeBox = 0 /\ feeWrites = 0 /\ draft = NoDraft)

StageOrder ==
    <<"Start", "ContextFetched", "Selected", "FeeResolved", "ChangeComputed", "Assembled">>

StageIndex(s) == CHOOSE i \in 1..Len(StageOrder) : StageOrder[i] = s

\* C13: a build passes the stages Start, ContextFetched, Selected, FeeResolved,
\* ChangeComputed, Assembled in this order: every stage follows its predecessor or
\* is Failed, nothing follows Assembled or Failed, selection precedes the fee.
C13_StageOrder ==
    \A i \in 1..Len(stages) :
        IF i = 1 THEN stages[i] = "Start"
        ELSE /\ stages[i - 1] \notin {"Assembled", "Failed"}
             /\ \/ stages[i] = "Failed"
                \/ StageIndex(stages[i]) = StageIndex(stages[i - 1]) + 1

(***************************************************************************)
(* OutputInterpreter (txBuilder.ts 166-342): the asset list of a box for   *)
(* display.                                                                *)
(***************************************************************************)
Undefined == "<undefined>"

\* JavaScript numbers as far as the interpreter meets them
Num(n) == [kind |-> "number", n |-> n]
NaN == [kind |-> "NaN", n |-> 0]
NumUndefined == [kind |-> "undefined", n |-> 0]

\* `x ? ... : ...` on a number: NaN, 0 and undefined are falsy
Truthy(d) == d.kind = "number" /\ d.n # 0

bn(n) == BN(n, 0)

\* decimalize(value, decimals): value.shiftedBy(-decimals)
decimalize(value, decimals) ==
    IF decimals = 0 THEN value ELSE [c |-> value.c, e |-> value.e - decimals]

\* a serialized register: type "absent" (no such key), "invalid" (bytes that are no
\* constant), or the type of the constant with its data
Reg(type, text, num, flag) == [type |-> type, text |-> text, num |-> num, flag |-> flag]
RAbsent == Reg("absent", "", 0, FALSE)
RInvalid == Reg("invalid", "", 0, FALSE)
RText(str) == Reg("SColl[SByte]", str, 0, FALSE)
RInt(n) == Reg("SInt", "", n, FALSE)
RLong(n) == Reg("SLong", "", n, FALSE)
RBool(b) == Reg("SBool", "", 0, b)

\* decode(value): the constant, or undefined for a missing or malformed value
Decodes(value) == value.type \notin {"absent", "invalid"}

\* Number.parseInt(text, 10): the leading integer of the text, NaN without one
ParseInt(text) ==
    CASE text = "2"   -> Num(2)
      [] text = "0"   -> Num(0)
      [] text = "1.5" -> Num(1)
      [] OTHER        -> NaN

\* typeof data === "number" ? data : Number(data)
ToNumber(r) ==
    CASE r.type \in {"SInt", "SLong"} -> Num(r.num)
      [] r.type = "SBool"             -> Num(IF r.flag THEN 1 ELSE 0)
      [] OTHER                        -> NaN

decodeUtf8(value) ==
    IF ~Decodes(value) \/ value.type # "SColl[SByte]" THEN Undefined ELSE value.text

\* variant: only a raw integer is taken for the scale
decodeDecimals_RawOnly(value) ==
    IF ~Decodes(value) THEN NumUndefined
    ELSE IF value.type = "SColl[SByte]" THEN NumUndefined
    ELSE ToNumber(value)

decodeDecimals(value) ==
    IF ~Decodes(value) THEN NumUndefined
    ELSE IF value.type = "SColl[SByte]" THEN ParseInt(value.text)
    ELSE ToNumber(value)

\* x ?? ""
OrEmpty(str) == IF str = Undefined THEN "" ELSE str

OutputAsset(tokenId, name, amount, decimals, description, minting) ==
    [tokenId |-> tokenId, name |-> name, amount |-> amount, decimals |-> decimals,
     description |-> description, minting |-> minting]

\* AssetsMetadataMap: metadata.get(id)?.name, metadata.get(id)?.decimals
MetaName(metadata, tokenId) ==
    IF tokenId \in metadata.known THEN metadata.name[tokenId] ELSE Undefined
MetaDecimals(metadata, tokenId) ==
    IF tokenId \in metadata.known THEN metadata.decimals[tokenId] ELSE 0

isValidBabelContract(ergoTree) == ergoTree \in {"babel:A", "babel:B"}

MatchingInputs(box, inputs) ==
    {i \in 1..Len(inputs) : inputs[i].ergoTree = box.ergoTree}

\* variant: the inputs are not looked at
isBabelBoxSwap_AnyContract(box, inputs) == isValidBabelContract(box.ergoTree)

isBabelBoxSwap(box, inputs) ==
    isValidBabelContract(box.ergoTree) /\ MatchingInputs(box, inputs) # {}

Lowest(S) == CHOOSE i \in S : \A j \in S : i <= j

\* assets.find(a => a.tokenId === tokenId)?.amount || 0
AmountIn(assets, tokenId) ==
    IF \E i \in 1..Len(assets) : assets[i].tokenId = tokenId
    THEN assets[Lowest({i \in 1..Len(assets) : assets[i].tokenId = tokenId})].amount
    ELSE 0

isEmptyRegisters(registers) ==
    registers.R4 = RAbsent /\ registers.R5 = RAbsent /\ registers.R6 = RAbsent

\* the outcome of building an asset list: the list, or the exception of first()
AssetList(list) == [ok |-> TRUE, assets |-> list]
Thrown == [ok |-> FALSE, assets |-> <<>>]

NoMinting == [found |-> FALSE,
              asset |-> OutputAsset("", Undefined, bn(0), NumUndefined, Undefined, FALSE)]

\* index of the first asset of the box with this token id, 0 if there is none
IndexOfToken(assets, tokenId) ==
    IF \E i \in 1..Len(assets) : assets[i].tokenId = tokenId
    THEN Lowest({i \in 1..Len(assets) : assets[i].tokenId = tokenId})
    ELSE 0

\* the minted asset of a box with registers
MintedFromRegisters(token, registers, decimals) ==
    OutputAsset(token.tokenId,
                OrEmpty(decodeUtf8(registers.R4)),
                IF Truthy(decimals) THEN decimalize(bn(token.amount), decimals.n)
                ELSE bn(token.amount),
                decimals,
                OrEmpty(decodeUtf8(registers.R5)),
                TRUE)

MintedToken(token, registers) ==
    IF isEmptyRegisters(registers)
    THEN OutputAsset(token.tokenId, Undefined, bn(token.amount), NumUndefined, Undefined,
                     FALSE)
    ELSE MintedFromRegisters(token, registers, decodeDecimals(registers.R6))

MintingAt(box, index) ==
    IF index = 0 THEN NoMinting
    ELSE [found |-> TRUE, asset |-> MintedToken(box.assets[index], box.additionalRegisters)]

\* getMintingToken for a non-empty input list: the asset named after the first input
getMintingToken(box, inputs) == MintingAt(box, IndexOfToken(box.assets, inputs[1].boxId))

ErgEntry(amount) ==
    OutputAsset(ERG_TOKEN_ID, "ERG", decimalize(bn(amount), ERG_DECIMALS), NumUndefined,
                Undefined, FALSE)

\* variant: the metadata's decimals are not applied
SendingTokens_Raw(box, metadata) ==
    [i \in 1..Len(box.assets) |->
        OutputAsset(box.assets[i].tokenId,
                    MetaName(metadata, box.assets[i].tokenId),
                    bn(box.assets[i].amount),
                    NumUndefined, Undefined, FALSE)]

\* the metadata-based entries of the assets the box carries
SendingTokens(box, metadata) ==
    [i \in 1..Len(box.assets) |->
        OutputAsset(box.assets[i].tokenId,
                    MetaName(metadata, box.assets[i].tokenId),
                    IF MetaDecimals(metadata, box.assets[i].tokenId) # 0
                    THEN decimalize(bn(box.assets[i].amount),
                                    MetaDecimals(metadata, box.assets[i].tokenId))
                    ELSE bn(box.assets[i].amount),
                    NumUndefined, Undefined, FALSE)]

\* tokens[index] = minting
WithMinting(tokens, minting) ==
    IF ~minting.found THEN tokens
    ELSE [i \in 1..Len(tokens) |->
            IF i = IndexOfToken(tokens, minting.asset.tokenId) THEN minting.asset
            ELSE tokens[i]]

buildSendingAssetsList(box, inputs, metadata) ==
    IF box.assets = <<>> THEN AssetList(<<ErgEntry(box.value)>>)
    ELSE IF inputs = <<>> THEN Thrown
    ELSE AssetList(<<ErgEntry(box.value)>>
                     \o WithMinting(SendingTokens(box, metadata),
                                    getMintingToken(box, inputs)))

\* the entries of a swap settlement against the matching input
SwapAssets(box, in, metadata) ==
    [i \in 1..Len(box.assets) |->
        OutputAsset(box.assets[i].tokenId,
                    MetaName(metadata, box.assets[i].tokenId),
                    decimalize(bn(box.assets[i].amount
                                    - AmountIn(in.assets, box.assets[i].tokenId)),
                               MetaDecimals(metadata, box.assets[i].tokenId)),
                    NumUndefined, Undefined, FALSE)]
      \o <<ErgEntry(in.value - box.value)>>

buildBabelSwapAssetsList(box, inputs, metadata) ==
    IF MatchingInputs(box, inputs) = {}
    THEN buildSendingAssetsList(box, inputs, metadata)
    ELSE AssetList(SwapAssets(box, inputs[Lowest(MatchingInputs(box, inputs))], metadata))

isMinting(assets) == \E i \in 1..Len(assets) : assets[i].minting

\* the interpreter as its getters show it
Interpretation(box, inputs, list) ==
    [kind |-> "interp", ok |-> list.ok, assets |-> list.assets,
     isBabelBoxSwap |-> list.ok /\ isBabelBoxSwap(box, inputs),
     isMinting |-> isMinting(list.assets)]

\* new OutputInterpreter(boxCandidate, inputs, metadata)
OutputInterpreter(box, inputs, metadata) ==
    Interpretation(box, inputs,
                   IF isBabelBoxSwap(box, inputs)
                   THEN buildBabelSwapAssetsList(box, inputs, metadata)
                   ELSE buildSendingAssetsList(box, inputs, metadata))

(***************************************************************************)
(* AddressesDbService.getChangeAddress (database/addressesDbService).      *)
(***************************************************************************)
NoAddress == [found |-> FALSE, walletId |-> 0, index |-> -1, state |-> "", script |-> ""]

Address(walletId, index, state, script) ==
    [found |-> TRUE, walletId |-> walletId, index |-> index, state |-> state,
     script |-> script]

\* walletsDbService.getById
getById(db, walletId) == {w \in db.wallets : w.id = walletId}

\* orderBy("index") ... first(): the row of the lowest index, if any
FirstByIndex(rows) ==
    IF rows = {} THEN NoAddress
    ELSE CHOOSE a \in rows : \A b \in rows : a.index <= b.index

\* variant: address-reuse avoidance is ignored
privateGetChangeAddress_DefaultOnly(db, row) ==
    FirstByIndex({a \in db.addresses :
                     a.walletId = row.id /\ a.index = row.defaultChangeIndex})

\* _getChangeAddress(wallet): `row` is the wallet's row
privateGetChangeAddress(db, row) ==
    IF row.avoidAddressReuse
    THEN FirstByIndex({a \in db.addresses : a.walletId = row.id /\ a.state = "Unused"})
    ELSE FirstByIndex({a \in db.addresses :
                          a.walletId = row.id /\ a.index = row.defaultChangeIndex})

\* the fallback of getChangeAddress: the wallet's address of the lowest index
OrLowestIndex(db, walletId, address) ==
    IF ~address.found
    THEN FirstByIndex({a \in db.addresses : a.walletId = walletId})
    ELSE address

getChangeAddressOf(db, walletId, found) ==
    IF found = {} THEN NoAddress
    ELSE OrLowestIndex(db, walletId,
                       privateGetChangeAddress(db, CHOOSE w \in found : TRUE))

getChangeAddress(db, walletId) == getChangeAddressOf(db, walletId, getById(db, walletId))

\* the wallet as the store holds it: changeAddress is the row getChangeAddress gave
StoreFor(row, address) ==
    [id |-> row.id, type |-> "Standard", publicKey |-> row.publicKey,
     changeIndex |-> address.index]

\* safeGetChangeAddress over a store record
ChangeScript(store) ==
    DeriveAddress(store.publicKey, IF store.changeIndex = -1 THEN 0 ELSE store.changeIndex)

\* the address the builder sends change to for the wallet row, "" without a wallet
BuilderChangeOf(db, walletId, found) ==
    IF found = {} THEN ""
    ELSE ChangeScript(StoreFor(CHOOSE w \in found : TRUE, getChangeAddress(db, walletId)))

ChangeAddressResult(db, walletId) ==
    [kind |-> "addr", address |-> getChangeAddress(db, walletId),
     builderChange |-> BuilderChangeOf(db, walletId, getById(db, walletId))]

(***************************************************************************)
(* Arguments of the display and address functions.                         *)
(***************************************************************************)
Asset(tokenId, amount) == [tokenId |-> tokenId, amount |-> amount]

InterpreterTokenId == {"A", "B", "in1"}

NoMetadata ==
    [known |-> {}, name |-> [t \in InterpreterTokenId |-> Undefined],
     decimals |-> [t \in InterpreterTokenId |-> 0]]

\* asset metadata of the wallet: A has two decimals, B none, in1 one
SomeMetadata ==
    [known |-> InterpreterTokenId,
     name |-> [t \in InterpreterTokenId |->
                 CASE t = "A" -> "TokA" [] t = "B" -> "TokB" [] OTHER -> "Old"],
     decimals |-> [t \in InterpreterTokenId |->
                     CASE t = "A" -> 2 [] t = "B" -> 0 [] OTHER -> 1]]

UnsignedInput(boxId, ergoTree, value, assets) ==
    [boxId |-> boxId, ergoTree |-> ergoTree, value |-> value, assets |-> assets]

WalletInput == UnsignedInput("in1", "addr1", 3000000, <<Asset("A", 250)>>)
SwapInput == UnsignedInput("in2", "babel:B", 2000000000, <<Asset("B", 1000)>>)
OtherSwapInput == UnsignedInput("in3", "babel:B", 1500000000, <<Asset("B", 400)>>)

InputLists ==
    { <<>>, <<WalletInput>>, <<WalletInput, SwapInput>>, <<SwapInput, WalletInput>>,
      <<OtherSwapInput, SwapInput>> }

RegisterSets ==
    { [R4 |-> r4, R5 |-> r5, R6 |-> r6] :
        r4 \in {RAbsent, RInvalid, RText("Token"), RInt(7)},
        r5 \in {RAbsent, RText("Desc")},
        r6 \in {RAbsent, RInvalid, RText("2"), RText("abc"), RText("1.5"), RInt(2),
                RLong(2), RBool(TRUE)} }

BoxCandidates ==
    { [ergoTree |-> tree, value |-> v, assets |-> a, additionalRegisters |-> r] :
        tree \in {"babel:A", "babel:B", "recipient"},
        v \in {1000000, 2005000000},
        a \in { <<>>, <<Asset("B", 900)>>, <<Asset("in1", 500)>>,
                <<Asset("A", 250), Asset("in1", 500)>>,
                <<Asset("B", 900), Asset("A", 250)>> },
        r \in RegisterSets }

InterpreterInputs ==
    { [kind |-> "interp", box |-> b, inputs |-> l, metadata |-> m] :
        b \in BoxCandidates, l \in InputLists, m \in {NoMetadata, SomeMetadata} }

\* the address rows of wallet 1 by index ("none": no row), and two rows of wallet 2
AddressRows(table) ==
    { Address(1, i, table[i], DeriveAddress("pk1", i)) :
        i \in {j \in 0..MaxAddressIndex : table[j] # "none"} }
      \cup { Address(2, 0, "Unused", DeriveAddress("pk2", 0)),
             Address(2, 1, "Used", DeriveAddress("pk2", 1)) }

WalletRows(avoid, index) ==
    { [id |-> 1, publicKey |-> "pk1", avoidAddressReuse |-> avoid,
       defaultChangeIndex |-> index],
      [id |-> 2, publicKey |-> "pk2", avoidAddressReuse |-> FALSE,
       defaultChangeIndex |-> 0] }

AddressInputs ==
    { [kind |-> "addr", walletId |-> w,
       db |-> [wallets |-> WalletRows(avoid, index), addresses |-> AddressRows(table)]] :
        w \in {1, 2, 3},
        avoid \in BOOLEAN,
        index \in 0..(MaxAddressIndex + 1),
        table \in [0..MaxAddressIndex -> {"none", "Used", "Unused"}] }

\* the outcome of getByWalletIdAndScripts: the rows, or the thrown error
LookupResult(mode, scripts, result) ==
    IF mode = "strict" /\ Cardinality(result) # Len(scripts)
    THEN [kind |-> "lookup", ok |-> FALSE, rows |-> {}]
    ELSE [kind |-> "lookup", ok |-> TRUE, rows |-> result]

\* AddressesDbService.getByWalletIdAndScripts(walletId, scripts, mode)
getByWalletIdAndScripts(db, walletId, scripts, mode) ==
    LookupResult(mode, scripts,
                 {a \in db.addresses : a.script \in Range(scripts) /\ a.walletId = walletId})

\* lookups of up to two scripts, owned by the wallet, by the other wallet or unknown
LookupInputs ==
    { [kind |-> "lookup", walletId |-> w, scripts |-> l, mode |-> m,
       db |-> [wallets |-> WalletRows(FALSE, 0), addresses |-> AddressRows(table)]] :
        w \in {1, 2},
        m \in {"strict", "loose"},
        l \in UNION {[1..k -> {"addr1", "addr1_1", "addr2", "unknown"}] : k \in 0..2},
        table \in [0..MaxAddressIndex -> {"none", "Unused"}] }

(***************************************************************************)
(* The display and address functions applied to their arguments.           *)
(***************************************************************************)
txVars == <<wallet, pc, op, req, tx, ctxWallet, boxesAns, heightAns, asmWallet, babelAns,
            builder, feeBox, feeWrites, nFetch, nLookup, draft, err, stages>>

FunctionsInit ==
    /\ wallet = 1
    /\ pc = "idle"
    /\ op = "none"
    /\ req = NoReq
    /\ tx = NoTx
    /\ ctxWallet = 0
    /\ boxesAns = NoBoxes
    /\ heightAns = 0
    /\ asmWallet = 0
    /\ babelAns = NoBoxes
    /\ builder = NewBuilder(0)
    /\ feeBox = 0
    /\ feeWrites = 0
    /\ nFetch = 0
    /\ nLookup = 0
    /\ draft = NoDraft
    /\ err = ""
    /\ stages = <<>>
    /\ \/ input \in InterpreterInputs
       \/ input \in AddressInputs
       \/ input \in LookupInputs
    /\ output = NoOutput
    /\ ViewsIdle

\* new OutputInterpreter(box, inputs, metadata, addresses)
Interpret ==
    /\ input.kind = "interp"
    /\ output.kind = "none"
    /\ output' = OutputInterpreter(input.box, input.inputs, input.metadata)
    /\ UNCHANGED <<txVars, viewVars, input>>

\* addressesDbService.getChangeAddress(walletId), and the builder's change address
GetChangeAddress ==
    /\ input.kind = "addr"
    /\ output.kind = "none"
    /\ output' = ChangeAddressResult(input.db, input.walletId)
    /\ UNCHANGED <<txVars, viewVars, input>>

\* addressesDbService.getByWalletIdAndScripts(walletId, scripts, mode)
GetByWalletIdAndScripts ==
    /\ input.kind = "lookup"
    /\ output.kind = "none"
    /\ output' = getByWalletIdAndScripts(input.db, input.walletId, input.scripts,
                                         input.mode)
    /\ UNCHANGED <<txVars, viewVars, input>>

FunctionsNext ==
    \/ Interpret
    \/ GetChangeAddress
    \/ GetByWalletIdAndScripts

FunctionsSpec == FunctionsInit /\ [][FunctionsNext]_vars

(***************************************************************************)
(* Properties of the display functions.                                    *)
(***************************************************************************)
Interpreted == output.kind = "interp" /\ output.ok

\* an input of the transaction has exactly the script of the box
SameScriptInput ==
    \E i \in 1..Len(input.inputs) : input.inputs[i].ergoTree = input.box.ergoTree

\* the list has the native entry of the box's value first, then one entry per asset
\* of the box, in the box's order, built from the box's own amounts
OwnContentsList ==
    /\ Len(output.assets) = 1 + Len(input.box.assets)
    /\ output.assets[1].tokenId = ERG_TOKEN_ID
    /\ output.assets[1].amount = [c |-> input.box.value, e |-> 0 - ERG_DECIMALS]
    /\ \A i \in 1..Len(input.box.assets) :
         /\ output.assets[i + 1].tokenId = input.box.assets[i].tokenId
         /\ output.assets[i + 1].amount.c = input.box.assets[i].amount

MatchedInput ==
    input.inputs[CHOOSE i \in 1..Len(input.inputs) :
                    /\ input.inputs[i].ergoTree = input.box.ergoTree
                    /\ \A j \in 1..(i - 1) :
                          input.inputs[j].ergoTree # input.box.ergoTree]

\* the amount of the asset in the matched input, 0 if it holds none
MatchedAmount(tokenId) ==
    IF \E k \in 1..Len(MatchedInput.assets) : MatchedInput.assets[k].tokenId = tokenId
    THEN LET k == CHOOSE k \in 1..Len(MatchedInput.assets) :
                     MatchedInput.assets[k].tokenId = tokenId
         IN MatchedInput.assets[k].amount
    ELSE 0

\* C15: for a swap settlement every entry is the trade delta with one orientation:
\* each asset entry and the native entry are the output's amount minus the matched
\* input's amount (before decimal scaling): 1000 B / 2000000000 in and 900 B /
\* 2005000000 out are reported as -100 B and +5000000 native.
C15_TradeDelta ==
    (Interpreted /\ output.isBabelBoxSwap) =>
        /\ Len(output.assets) = Len(input.box.assets) + 1
        /\ \A i \in 1..Len(input.box.assets) :
             /\ output.assets[i].tokenId = input.box.assets[i].tokenId
             /\ output.assets[i].amount.c
                  = input.box.assets[i].amount - MatchedAmount(input.box.assets[i].tokenId)
        /\ output.assets[Len(output.assets)].tokenId = ERG_TOKEN_ID
        /\ output.assets[Len(output.assets)].amount.c
             = input.box.value - MatchedInput.value

\* the box carries an asset named after the first input of the transaction
CarriesFirstInputId ==
    /\ input.inputs # <<>>
    /\ \E i \in 1..Len(input.box.assets) :
          input.box.assets[i].tokenId = input.inputs[1].boxId

\* position in the list of the entry of the asset named after the first input
MintedEntry ==
    1 + (CHOOSE i \in 1..Len(input.box.assets) :
            /\ input.box.assets[i].tokenId = input.inputs[1].boxId
            /\ \A j \in 1..(i - 1) :
                  input.box.assets[j].tokenId # input.inputs[1].boxId)

\* the raw amount of that asset
MintedAmount == input.box.assets[MintedEntry - 1].amount

\* C16: a box that is no swap settlement is minting, and the asset's entry flagged
\* minting, whenever it carries an asset whose id is the box id of the first input,
\* with or without registers; it is never minting when no carried asset has that id
\* or the input list is empty.
C16_Minting ==
    (Interpreted /\ ~output.isBabelBoxSwap) =>
        IF CarriesFirstInputId
        THEN output.isMinting /\ output.assets[MintedEntry].minting
        ELSE ~output.isMinting

Registers == input.box.additionalRegisters

HasRegisters == Registers.R4.type # "absent" \/ Registers.R5.type # "absent"
                  \/ Registers.R6.type # "absent"

\* a minted asset of a box with registers was interpreted
MintWithRegisters ==
    Interpreted /\ ~output.isBabelBoxSwap /\ CarriesFirstInputId /\ HasRegisters

\* C17: for a minted asset with registers the name is R4 and the description R5 as
\* UTF-8 text, the scale is R6 as a raw integer or as a UTF-8 integer string, the
\* amount is the raw amount divided by 10^scale (N/100 named "Token" for scale 2),
\* and this entry stands in place of the metadata-based entry of the asset.
C17_MintRegisters ==
    MintWithRegisters =>
        /\ output.assets[MintedEntry].tokenId = input.inputs[1].boxId
        /\ output.assets[MintedEntry].minting
        /\ Len(output.assets) = 1 + Len(input.box.assets)
        /\ Registers.R4 = RText("Token") => output.assets[MintedEntry].name = "Token"
        /\ Registers.R5 = RText("Desc") => output.assets[MintedEntry].description = "Desc"
        /\ Registers.R6 \in {RText("2"), RInt(2), RLong(2)} =>
             /\ output.assets[MintedEntry].decimals = Num(2)
             /\ output.assets[MintedEntry].amount = [c |-> MintedAmount, e |-> -2]

\* name "Token" and scale "2" as text replaced the metadata's name and one decimal
C17_Witness ==
    /\ MintWithRegisters
    /\ Registers.R4 = RText("Token") /\ Registers.R6 = RText("2")
    /\ input.metadata = SomeMetadata
    /\ output.assets[MintedEntry].amount = [c |-> 500, e |-> -2]
    /\ output.assets[MintedEntry].name = "Token"

BoxWithoutRegisters ==
    [input.box EXCEPT !.additionalRegisters = [R4 |-> RAbsent, R5 |-> RAbsent,
                                                R6 |-> RAbsent]]

\* the register holds UTF-8 text
IsText(r) == r.type = "SColl[SByte]"

\* the register gives a decimal scale: a raw integer, or text that is an integer
IsScale(r) == r.type \in {"SInt", "SLong"} \/ (IsText(r) /\ r.text \in {"0", "2"})

\* C18: the registers never make the interpretation fail: a box is interpreted
\* whenever the same box without registers is; for a minted asset a register R4 or
\* R5 that is absent, undecodable or no text gives an empty name or description, and
\* an R6 that is absent, undecodable, of another type or text that is no integer
\* gives an unknown scale and the raw amount.
C18_RegisterTolerance ==
    output.kind = "interp" =>
        /\ output.ok = OutputInterpreter(BoxWithoutRegisters, input.inputs,
                                         input.metadata).ok
        /\ MintWithRegisters =>
             /\ ~IsText(Registers.R4) => output.assets[MintedEntry].name = ""
             /\ ~IsText(Registers.R5) => output.assets[MintedEntry].description = ""
             /\ ~IsScale(Registers.R6) =>
                  /\ output.assets[MintedEntry].decimals.kind \in {"undefined", "NaN"}
                  /\ output.assets[MintedEntry].amount = [c |-> MintedAmount, e |-> 0]

\* the metadata gives decimals for the asset
KnownDecimals(tokenId) ==
    tokenId \in input.metadata.known /\ input.metadata.decimals[tokenId] # 0

RowsOfWallet == {a \in input.db.addresses : a.walletId = input.walletId}

\* the rows the configured rule selects: the unused ones under address-reuse
\* avoidance, otherwise the one at the default change index
RuleRows(row) ==
    IF row.avoidAddressReuse
    THEN {a \in RowsOfWallet : a.state = "Unused"}
    ELSE {a \in RowsOfWallet : a.index = row.defaultChangeIndex}

IsLowest(a, rows) == a \in rows /\ \A b \in rows : a.index <= b.index

OwnedScript(script) ==
    \E a \in input.db.addresses : a.script = script /\ a.walletId = input.walletId

\* C21: a strict lookup fails exactly when a requested script is not an address of
\* the wallet and otherwise returns the wallet's rows of all requested scripts; a
\* loose lookup never fails and returns rows of the wallet only.
C21_StrictLookup ==
    output.kind = "lookup" =>
        /\ input.mode = "strict" =>
             /\ ~output.ok <=> \E i \in 1..Len(input.scripts) : ~OwnedScript(input.scripts[i])
             /\ output.ok =>
                  output.rows = {a \in input.db.addresses :
                                    /\ a.walletId = input.walletId
                                    /\ a.script \in Range(input.scripts)}
        /\ input.mode = "loose" =>
             /\ output.ok
             /\ \A a \in output.rows : a.walletId = input.walletId

(***************************************************************************)
(* Properties of the payment value, the fee and the wallet context.        *)
(***************************************************************************)
\* the native value the payment asks for, in nanoERG
Requested == Units(req.assets.erg, ERG_DECIMALS)

\* the native value of the fee tokens at the rate of the selected swap box
SwapFee == Units(req.fee.value, req.fee.decimals) * Box(feeBox).rate

\* the native value of the fee output of the draft
FeeOutputValue ==
    draft.outputs[CHOOSE o \in 1..Len(draft.outputs) :
                     draft.outputs[o].ergoTree = FEE_CONTRACT].value

\* a swap-fee payment of a positive native value below the minimum, the fee having
\* the headroom to raise it
Raisable ==
    /\ op = "p2p" /\ isBabelFee(req.fee) /\ feeBox # 0
    /\ Requested > 0 /\ Requested < MIN_BOX_VALUE
    /\ Requested <= SwapFee - SAFE_MIN_FEE_VALUE

\* C22: a swap-fee payment of a positive native value below the minimum box value,
\* the fee having headroom, yields a payment output of exactly MIN_BOX_VALUE and a
\* fee lower by the difference, payment plus fee being what they were.
C22_MinBoxAdjustment ==
    (Returned /\ Raisable) =>
        /\ draft.outputs[1].value = MIN_BOX_VALUE
        /\ FeeOutputValue = SwapFee - (MIN_BOX_VALUE - Requested)
        /\ draft.outputs[1].value + FeeOutputValue = Requested + SwapFee

\* C23: no returned payment draft has a payment output below MIN_BOX_VALUE; a
\* request of zero native value with a swap fee pays exactly MIN_BOX_VALUE; a
\* positive value below the minimum that cannot be raised ends in the depletion
\* error.
C23_NoBelowMinimum ==
    /\ (Returned /\ op = "p2p") => draft.outputs[1].value >= MIN_BOX_VALUE
    /\ (Returned /\ op = "p2p" /\ isBabelFee(req.fee) /\ Requested = 0)
          => draft.outputs[1].value = MIN_BOX_VALUE
    /\ (Ended /\ op = "p2p" /\ stages[Len(stages) - 1] = "FeeResolved"
          /\ Requested > 0 /\ Requested < MIN_BOX_VALUE /\ ~Raisable)
          => (pc = "failed" /\ err = "depletion")

\* the wallet type that ought to decide: the walletType of a payment, the type of
\* the wallet whose inputs a cancellation re-spends
BackendType == IF op = "p2p" THEN req.walletType ELSE WalletStore(ctxWallet).type

\* the request needs native value only, beyond the pinned inputs
NativeOnly ==
    \/ op = "rbf"
    \/ op = "p2p" /\ ~isBabelFee(req.fee) /\ req.assets.tokA.c = 0

\* no candidate left unselected is older than a selected one
OlderFirst ==
    \A sel \in Range(draft.inputs) \ builder.ensure :
        \A u \in Range(builder.inputs) \ Range(draft.inputs) :
            Box(sel).creationHeight <= Box(u).creationHeight

\* C24: the signing backend alone decides selection and change packing: Ledger gets
\* cherry-pick and one asset per change output, any other type inputs by creation
\* height ascending (older before younger) and the limit of 100; the backend is the
\* walletType of a payment and the type of the re-spent wallet of a cancellation.
C24_BackendProfile ==
    Returned =>
        IF BackendType = "Ledger"
        THEN /\ builder.strategy = "cherry"
             /\ builder.maxTokensPerChangeBox = 1
             /\ \A i \in ChangeOutputsOfDraft :
                  Cardinality(TokensOf(draft.outputs[i].assets)) <= 1
        ELSE /\ builder.strategy = "accumulative" /\ builder.orderByHeight
             /\ builder.maxTokensPerChangeBox = SAFE_MAX_CHANGE_TOKEN_LIMIT
             /\ NativeOnly => OlderFirst

\* C25: a build uses one wallet from start to end: the wallet whose outputs were
\* fetched is the wallet whose change address gets the change and, for a
\* cancellation, the wallet whose type set the strategy, whatever wallet switches
\* happened while the build was suspended.
C25_OneWalletContext ==
    Returned =>
        /\ \A i \in ChangeOutputsOfDraft :
             draft.outputs[i].ergoTree = ChangeAddressOf(ctxWallet)
        /\ op = "rbf" =>
             builder.maxTokensPerChangeBox
               = (IF WalletStore(ctxWallet).type = "Ledger" THEN 1
                  ELSE SAFE_MAX_CHANGE_TOKEN_LIMIT)

\* C26: the fee setFee attaches is not below SAFE_MIN_FEE_VALUE when the fee-token
\* units times the rate of the selected box are not, the minimum-box-value
\* adjustment included.
C26_FeeFloor ==
    (op = "p2p" /\ builder.plugins # <<>> /\ builder.fee # -1) =>
        (builder.plugins[1].amount * Box(builder.plugins[1].box).rate
             >= SAFE_MIN_FEE_VALUE
           => builder.fee >= SAFE_MIN_FEE_VALUE)

(***************************************************************************)
(* The state shared by the specifications of the views: no build, no       *)
(* function under evaluation.                                              *)
(***************************************************************************)
Quiescent ==
    /\ wallet = 1
    /\ pc = "idle"
    /\ op = "none"
    /\ req = NoReq
    /\ tx = NoTx
    /\ ctxWallet = 0
    /\ boxesAns = NoBoxes
    /\ heightAns = 0
    /\ asmWallet = 0
    /\ babelAns = NoBoxes
    /\ builder = NewBuilder(0)
    /\ feeBox = 0
    /\ feeWrites = 0
    /\ nFetch = 0
    /\ nLookup = 0
    /\ draft = NoDraft
    /\ err = ""
    /\ stages = <<>>
    /\ input = NoInput
    /\ output = NoOutput

(***************************************************************************)
(* AuthView.vue: the view that answers a dApp authentication request.      *)
(*                                                                         *)
(* app.loading is FALSE throughout (the application has started).          *)
(* $validate() with synchronous validators finishes in microtasks, before  *)
(* any user event, and is part of the step that calls it.                  *)
(***************************************************************************)
\* the number of authenticate calls that reach signAuthMessage
MaxAuthCalls == 2

WalletTypes == {"Standard", "ReadOnly", "Ledger"}

\* the wallets a dApp connection can name, by id
AuthWalletType(id) ==
    CASE id = 1 -> "Standard"
      [] id = 2 -> "Ledger"
      [] OTHER -> "ReadOnly"

\* request.value.resolve(answer)
resolve(a, answer) == [a EXCEPT !.resolutions = Append(@, answer)]

\* refuse()
refuse(a) == IF ~a.request THEN a ELSE resolve(a, "Refused: User rejected.")

\* window.close()
close(a) == [a EXCEPT !.window = "closing"]

\* detachBeforeUnloadListener()
detachBeforeUnloadListener(a) == [a EXCEPT !.listener = FALSE]

\* what the view leaves alone
authRest == <<txVars, input, output, assetInfo, feeSelector, wizard>>

\* setup: the refs, the beforeunload listener, the password rule
AuthInit ==
    /\ Quiescent
    /\ assetInfo = NoAssetInfo
    /\ feeSelector = NoFeeSelector
    /\ wizard = NoWizard
    /\ \E queued \in BOOLEAN, conn \in 0..3, type \in WalletTypes :
         auth = [phase |-> "setup", queue |-> queued, request |-> FALSE, conn |-> conn,
                 walletId |-> 0, loadPending |-> FALSE, storeType |-> type,
                 passwordRequired |-> (type # "Ledger"), password |-> "",
                 calls |-> 0, signing |-> 0, listener |-> TRUE, window |-> "open",
                 resolutions |-> <<>>, signedAs |-> {}]

\* onMounted, up to the await of getByOrigin
Mount ==
    /\ auth.phase = "setup"
    /\ auth' = [auth EXCEPT !.request = auth.queue, !.queue = FALSE,
                            !.phase = IF auth.queue THEN "lookup" ELSE "mounted"]
    /\ UNCHANGED authRest

\* onMounted, after getByOrigin has answered
ConnectionReturn ==
    /\ auth.phase = "lookup"
    /\ auth.window # "unloaded"
    /\ auth' = IF auth.conn = 0
               THEN close(resolve([auth EXCEPT !.phase = "mounted"],
                                  "Refused: Unauthorized."))
               ELSE [auth EXCEPT !.phase = "mounted", !.walletId = auth.conn,
                                 !.loadPending = TRUE]
    /\ UNCHANGED authRest

\* wallet.load(walletId) started by setWallet has finished
WalletLoaded ==
    /\ auth.loadPending
    /\ auth.window # "unloaded"
    /\ auth' = [auth EXCEPT !.loadPending = FALSE,
                            !.storeType = AuthWalletType(auth.walletId)]
    /\ UNCHANGED authRest

\* the user types into the password field, shown for a wallet that can sign
TypePassword ==
    /\ auth.window = "open"
    /\ auth.storeType = "Standard"
    /\ \E p \in {"", "secret"} :
         /\ p # auth.password
         /\ auth' = [auth EXCEPT !.password = p]
    /\ UNCHANGED authRest

\* authenticate(), up to the await of signAuthMessage
Authenticate ==
    /\ auth.window = "open"
    /\ auth.calls < MaxAuthCalls
    /\ ~(auth.storeType = "ReadOnly" \/ auth.storeType = "Ledger" \/ ~auth.request)
    /\ ~auth.passwordRequired \/ auth.password # ""
    /\ auth' = [auth EXCEPT !.calls = @ + 1, !.signing = @ + 1,
                            !.signedAs = @ \cup {auth.storeType}]
    /\ UNCHANGED authRest

\* authenticate(), after signAuthMessage has returned a proof, thrown a
\* PasswordError or thrown another error
SignReturn ==
    /\ auth.signing > 0
    /\ auth.window # "unloaded"
    /\ \E outcome \in {"proof", "PasswordError", "Error"} :
         LET a == [auth EXCEPT !.signing = @ - 1] IN
         auth' = CASE outcome = "proof" ->
                        close(detachBeforeUnloadListener(resolve(a, "success")))
                   [] outcome = "PasswordError" -> a
                   [] OTHER -> resolve(a, "ProofGeneration")
    /\ UNCHANGED authRest

\* cancel()
Cancel ==
    /\ auth.window = "open"
    /\ auth.phase # "setup"
    /\ auth' = close(detachBeforeUnloadListener(refuse(auth)))
    /\ UNCHANGED authRest

\* the window unloads: the beforeunload listener runs if it is still attached
Unload ==
    /\ auth.window \in {"open", "closing"}
    /\ auth.phase # "setup"
    /\ auth' = [(IF auth.listener THEN refuse(auth) ELSE auth)
                   EXCEPT !.window = "unloaded"]

    /\ UNCHANGED authRest
AuthNext ==
    \/ Mount
    \/ ConnectionReturn
    \/ WalletLoaded
    \/ TypePassword
    \/ Authenticate
    \/ SignReturn
    \/ Cancel
    \/ Unload

AuthSpec == AuthInit /\ [][AuthNext]_vars

\* C27: a request the view took from the queue is resolved at most once, whatever
\* the sequence of authenticate, cancel and unload: after a resolution with a
\* signature or with a proof-generation error no refusal follows; and authenticate
\* never calls the signer for a read-only or Ledger wallet.
C27_ResolvedOnce ==
    /\ Len(auth.resolutions) <= 1
    /\ \A i \in 1..Len(auth.resolutions) : \A j \in 1..Len(auth.resolutions) :
         (i < j /\ auth.resolutions[i] \in {"success", "ProofGeneration"})
            => auth.resolutions[j] # "Refused: User rejected."
    /\ auth.signedAs \cap {"ReadOnly", "Ledger"} = {}

(***************************************************************************)
(* assetInfoDbService.ts: addIfNotExists over the assetInfo table, whose   *)
(* primary key is the asset id.  A record is its name; "" is no record.    *)
(***************************************************************************)
AssetIds == {"t1", "t2"}

\* the callers of addIfNotExists that may overlap
Callers == {1, 2}

\* the argument lists
Infos == [id : AssetIds, name : {"x", "y"}]
InfoLists == {<<>>} \cup {<<a>> : a \in Infos} \cup {<<a, b>> : a, b \in Infos}

\* uniqBy(assets, (a) => a.id): the first element of each id, in order
uniqBy(assets) ==
    LET keep == {i \in 1..Len(assets) : \A j \in 1..(i - 1) : assets[j].id # assets[i].id}
        pick[i \in 0..Len(assets)] ==
            IF i = 0 THEN <<>>
            ELSE IF i \in keep THEN Append(pick[i - 1], assets[i]) ELSE pick[i - 1]
    IN pick[Len(assets)]

\* assets.map((a) => a.id), as a set
paramIds(assets) == {assets[i].id : i \in 1..Len(assets)}

\* dbContext.assetInfo.where("id").anyOf(paramIds).primaryKeys()
primaryKeys(db, ids) == {id \in ids : db[id] # ""}

\* the records bulkAdd is given: assets.filter((a) => uncommited.includes(a.id))
ToAdd(call) == SelectSeq(call.assets, LAMBDA a : a.id \in paramIds(call.assets) \ call.dbIds)

\* the table after bulkAdd: a record whose key exists is rejected, the others are added
bulkAdd(db, records) ==
    [id \in AssetIds |->
        IF db[id] = "" /\ \E i \in 1..Len(records) : records[i].id = id
        THEN (CHOOSE r \in Range(records) : r.id = id).name
        ELSE db[id]]

\* bulkAdd rejects with a BulkError when a key of a record exists
bulkAddFails(db, records) == \E i \in 1..Len(records) : db[records[i].id] # ""

IdleCall == [pc |-> "idle", given |-> <<>>, assets |-> <<>>, dbIds |-> {}]

\* what the table service leaves alone
assetInfoRest == <<txVars, input, output, auth, feeSelector, wizard>>

AssetInfoInit ==
    /\ Quiescent
    /\ auth = NoAuth
    /\ feeSelector = NoFeeSelector
    /\ wizard = NoWizard
    /\ \E db \in [AssetIds -> {"", "old"}] :
         assetInfo = [phase |-> "on", db0 |-> db, db |-> db,
                      calls |-> [c \in Callers |-> IdleCall]]

\* addIfNotExists(assets), up to the await of primaryKeys()
AddIfNotExists ==
    /\ \E c \in Callers, assets \in InfoLists :
         /\ assetInfo.calls[c].pc = "idle"
         /\ assetInfo' =
              [assetInfo EXCEPT !.calls[c] =
                 IF assets = <<>>
                 THEN [IdleCall EXCEPT !.pc = "done"]
                 ELSE [pc |-> "query", given |-> assets, assets |-> uniqBy(assets),
                       dbIds |-> {}]]
    /\ UNCHANGED assetInfoRest

\* primaryKeys() has answered: difference(paramIds, dbIds)
PrimaryKeysReturn ==
    /\ \E c \in Callers :
         /\ assetInfo.calls[c].pc = "query"
         /\ LET call == assetInfo.calls[c]
                dbIds == primaryKeys(assetInfo.db, paramIds(call.assets))
            IN assetInfo' =
                 [assetInfo EXCEPT !.calls[c].dbIds = dbIds,
                                   !.calls[c].pc =
                                      IF paramIds(call.assets) \ dbIds = {}
                                      THEN "done" ELSE "add"]
    /\ UNCHANGED assetInfoRest

\* bulkAdd has run
BulkAddReturn ==
    /\ \E c \in Callers :
         /\ assetInfo.calls[c].pc = "add"
         /\ assetInfo' =
              [assetInfo EXCEPT
                 !.db = bulkAdd(@, ToAdd(assetInfo.calls[c])),
                 !.calls[c].pc =
                    IF bulkAddFails(assetInfo.db, ToAdd(assetInfo.calls[c]))
                    THEN "failed" ELSE "done"]
    /\ UNCHANGED assetInfoRest

AssetInfoNext ==
    \/ AddIfNotExists
    \/ PrimaryKeysReturn
    \/ BulkAddReturn

AssetInfoSpec == AssetInfoInit /\ [][AssetInfoNext]_vars

\* the name of the first element of the id in the list a caller gave
FirstGiven(c, id) ==
    LET given == assetInfo.calls[c].given
        i == CHOOSE k \in 1..Len(given) :
                 given[k].id = id /\ \A j \in 1..(k - 1) : given[j].id # id
    IN given[i].name

\* C28: addIfNotExists neither overwrites nor duplicates a record: whatever the
\* interleaving of overlapping calls, no call ends in an error, every id a finished
\* call asked for has its record, the records that existed keep their content, and
\* a new record holds the first occurrence of its id in the list of a call.
C28_AddIfNotExists ==
    /\ \A c \in Callers : assetInfo.calls[c].pc # "failed"
    /\ \A c \in Callers :
         assetInfo.calls[c].pc = "done" =>
            \A id \in paramIds(assetInfo.calls[c].given) : assetInfo.db[id] # ""
    /\ \A id \in AssetIds : assetInfo.db0[id] # "" => assetInfo.db[id] = assetInfo.db0[id]
    /\ \A id \in AssetIds :
         (assetInfo.db0[id] = "" /\ assetInfo.db[id] # "") =>
            \E c \in Callers : /\ id \in paramIds(assetInfo.calls[c].given)
                               /\ assetInfo.db[id] = FirstGiven(c, id)

(***************************************************************************)
(* TransactionFeeConfig.vue: the fee selector and its loadAssets runs.     *)
(* A fee asset is its token id and its rate; the balance is the set of the *)
(* token ids of wallet.nonArtworkBalance other than the native asset.      *)
(***************************************************************************)
\* the loadAssets runs that may overlap
Runs == {1, 2, 3}

\* the swap boxes on the chain: the token of the contract, the rate, isValidBabelBox
BabelOffers ==
    { [tokenId |-> "A", rate |-> 100, valid |-> TRUE],
      [tokenId |-> "A", rate |-> 200, valid |-> TRUE],
      [tokenId |-> "B", rate |-> 0,   valid |-> TRUE],
      [tokenId |-> "B", rate |-> 100, valid |-> TRUE],
      [tokenId |-> "B", rate |-> 300, valid |-> FALSE] }

\* what fetchBabelBoxes(tokenIds) may answer
FetchAnswers(tokenIds) == SUBSET {b \in BabelOffers : b.tokenId \in tokenIds}

ErgAsset == [tokenId |-> ERG_TOKEN_ID, rate |-> 1]

\* groupBy(allBoxes.filter(isValidBabelBox), token of the contract), as the keys
GroupKeys(allBoxes) == {b.tokenId : b \in {x \in allBoxes : x.valid}}

\* maxBy(groups[tokenId].map(getNanoErgsPerTokenRate), toNumber)
MaxRate(allBoxes, tokenId) ==
    LET rates == {b.rate : b \in {x \in allBoxes : x.valid /\ x.tokenId = tokenId}}
    IN CHOOSE r \in rates : \A q \in rates : q <= r

\* newAssets: one fee asset per group, those of rate zero dropped
newAssets(allBoxes) ==
    {a \in {[tokenId |-> t, rate |-> MaxRate(allBoxes, t)] : t \in GroupKeys(allBoxes)} :
        a.rate # 0}

\* sortBy(newAssets, rate): the orders the sort may give, equal rates in either order
SortedByRate(set) ==
    {q \in [1..Cardinality(set) -> set] :
        /\ \A i, j \in 1..Cardinality(set) : i < j => (q[i] # q[j] /\ q[i].rate <= q[j].rate)}

IdleRun == [pc |-> "idle", tokenIds |-> {}]

\* the run loadAssets starts: the lowest run not yet used
NextRun(f) == CHOOSE r \in Runs : f.runs[r].pc = "idle" /\ \A q \in Runs : q < r => f.runs[q].pc # "idle"

\* loadAssets(), up to the await of fetchBabelBoxes or to its early return
loadAssets(f) ==
    LET r == NextRun(f)
        g == [f EXCEPT !.loading = TRUE, !.assets = <<ErgAsset>>]
    IN IF f.ergOnly \/ f.balance = {}
       THEN [g EXCEPT !.loading = FALSE, !.runs[r].pc = "done"]
       ELSE [g EXCEPT !.runs[r] = [pc |-> "fetch", tokenIds |-> f.balance]]

\* what the selector leaves alone
feeSelectorRest == <<txVars, input, output, auth, assetInfo, wizard>>

FeeSelectorInit ==
    /\ Quiescent
    /\ auth = NoAuth
    /\ assetInfo = NoAssetInfo
    /\ wizard = NoWizard
    /\ \E ergOnly \in BOOLEAN, balance \in SUBSET {"A", "B"} :
         feeSelector = [phase |-> "setup", ergOnly |-> ergOnly, balance |-> balance,
                        assets |-> <<>>, loading |-> FALSE,
                        runs |-> [r \in Runs |-> IdleRun]]

\* onMounted(loadAssets)
MountSelector ==
    /\ feeSelector.phase = "setup"
    /\ feeSelector' = loadAssets([feeSelector EXCEPT !.phase = "mounted"])
    /\ UNCHANGED feeSelectorRest

\* the watcher of the wallet: the token ids of the balance have changed
BalanceChanged ==
    /\ feeSelector.phase = "mounted"
    /\ \E r \in Runs : feeSelector.runs[r].pc = "idle"
    /\ \E balance \in SUBSET {"A", "B"} :
         /\ balance # feeSelector.balance
         /\ feeSelector' = loadAssets([feeSelector EXCEPT !.balance = balance])
    /\ UNCHANGED feeSelectorRest

\* loadAssets(), after fetchBabelBoxes has answered
FetchBabelBoxesReturn ==
    /\ \E r \in Runs :
         /\ feeSelector.runs[r].pc = "fetch"
         /\ \E allBoxes \in FetchAnswers(feeSelector.runs[r].tokenIds) :
              \E sorted \in SortedByRate(newAssets(allBoxes)) :
                 feeSelector' = [feeSelector EXCEPT !.assets = @ \o sorted,
                                                    !.loading = FALSE,
                                                    !.runs[r].pc = "done"]
    /\ UNCHANGED feeSelectorRest

\* fetchBabelBoxes has thrown: the run ends there
FetchBabelBoxesThrows ==
    /\ \E r \in Runs :
         /\ feeSelector.runs[r].pc = "fetch"
         /\ feeSelector' = [feeSelector EXCEPT !.runs[r].pc = "failed"]
    /\ UNCHANGED feeSelectorRest

FeeSelectorNext ==
    \/ MountSelector
    \/ BalanceChanged
    \/ FetchBabelBoxesReturn
    \/ FetchBabelBoxesThrows

FeeSelectorSpec == FeeSelectorInit /\ [][FeeSelectorNext]_vars

\* a loadAssets run is suspended on the swap-box fetch
RunPending == \E r \in Runs : feeSelector.runs[r].pc = "fetch"

\* C29: whatever the interleaving of loadAssets runs, once all have finished the
\* fee-asset list starts with the native asset, holds no token id twice, and holds
\* only tokens of the current wallet at a rate other than zero; and the loading
\* flag is false only when no run is pending.
C29_FeeAssetList ==
    /\ (feeSelector.phase = "mounted" /\ ~RunPending) =>
         /\ feeSelector.assets[1].tokenId = ERG_TOKEN_ID
         /\ \A i, j \in 1..Len(feeSelector.assets) :
              i # j => feeSelector.assets[i].tokenId # feeSelector.assets[j].tokenId
         /\ \A i \in 2..Len(feeSelector.assets) :
              /\ feeSelector.assets[i].tokenId \in feeSelector.balance
              /\ feeSelector.assets[i].rate # 0
    /\ (feeSelector.phase = "mounted" /\ ~feeSelector.loading) => ~RunPending

(***************************************************************************)
(* ImportWalletView.vue: the import-wallet wizard.                         *)
(*                                                                         *)
(* $validate() with synchronous validators finishes in microtasks, before  *)
(* any user event, and is part of the step that calls it; putWallet and    *)
(* wallet.load are the suspension points of next().                        *)
(***************************************************************************)
\* the next() calls that may overlap on the import
Attempts == {1, 2}

WalletNames == {"", "w"}
Passwords == {"", "short", "longpassword"}
PublicKeys == {"", "xpub"}
Phrases == {"", "words"}

\* the length of a password
Length(p) ==
    CASE p = "" -> 0
      [] p = "short" -> 5
      [] OTHER -> 12

\* isReadonly
isReadonly(w) == w.walletType = "readonly"

\* the steps of the wizard
steps == <<1, 2>>

\* rules of step 1 that ask for the wallet name only
infoRules_NameOnly(w) == w.walletName # ""

\* infoRules.$invalid negated: required name, password required unless read-only,
\* minLength(10) on a password that is not empty, confirmPassword sameAs password
infoRules(w) ==
    /\ w.walletName # ""
    /\ isReadonly(w) \/ w.password # ""
    /\ w.password = "" \/ Length(w.password) >= 10
    /\ w.confirmPassword = w.password

\* xpkRules: required, validPublicKey
xpkRules(w) == w.xpk = "xpub"

\* mnemonicRules: required, validMnemonic
mnemonicRules(w) == w.mnemonic = "words"

\* the argument of app.putWallet
putWalletArgs(w) ==
    IF isReadonly(w)
    THEN [name |-> w.walletName, type |-> "ReadOnly", extendedPublicKey |-> w.xpk,
          mnemonic |-> Undefined, password |-> Undefined]
    ELSE [name |-> w.walletName, type |-> "Standard", extendedPublicKey |-> Undefined,
          mnemonic |-> w.mnemonic, password |-> w.password]

\* what step 1 shows when the step advances
InfoShown(w) ==
    [walletType |-> w.walletType, walletName |-> w.walletName,
     password |-> w.password, confirmPassword |-> w.confirmPassword]

\* what step 2 shows when putWallet is called
SecretShown(w) ==
    [step |-> w.step, walletType |-> w.walletType,
     secret |-> IF isReadonly(w) THEN w.xpk ELSE w.mnemonic]

\* the step becomes s
advance(w, s) ==
    [w EXCEPT !.step = s,
              !.advances = IF w.step = 1 /\ s = 2 THEN @ \cup {InfoShown(w)} ELSE @]

\* next(), from the call to its return or to the await of putWallet (attempt a)
next(w, a) ==
    IF w.step = 1 /\ ~infoRules(w) THEN w
    ELSE IF w.step < Len(steps) THEN advance(w, w.step + 1)
    ELSE IF isReadonly(w) /\ ~xpkRules(w) THEN w
    ELSE IF ~isReadonly(w) /\ ~mnemonicRules(w) THEN w
    ELSE [w EXCEPT !.loading = TRUE,
                   !.attempts[a] = "put",
                   !.puts = @ \cup {[args |-> putWalletArgs(w), at |-> SecretShown(w)]}]

\* catch and finally of next()
importFailed(w, a) == [w EXCEPT !.loading = FALSE, !.attempts[a] = "failed"]

\* what the wizard leaves alone
wizardRest == <<txVars, input, output, auth, assetInfo, feeSelector>>

WizardInit ==
    /\ Quiescent
    /\ auth = NoAuth
    /\ assetInfo = NoAssetInfo
    /\ feeSelector = NoFeeSelector
    /\ wizard = [phase |-> "on", step |-> 1, walletType |-> "standard",
                 walletName |-> "", password |-> "", confirmPassword |-> "",
                 xpk |-> "", mnemonic |-> "", loading |-> FALSE,
                 attempts |-> [a \in Attempts |-> "idle"], navigated |-> FALSE,
                 advances |-> {}, puts |-> {}]

\* the user edits a field of step 1; the fields are disabled while loading, the
\* password fields for a read-only wallet as well
EditInfo ==
    /\ ~wizard.navigated
    /\ wizard.step = 1
    /\ ~wizard.loading
    /\ \/ \E n \in WalletNames \ {wizard.walletName} :
            wizard' = [wizard EXCEPT !.walletName = n]
       \/ /\ ~isReadonly(wizard)
          /\ \E p \in Passwords \ {wizard.password} :
               wizard' = [wizard EXCEPT !.password = p]
       \/ /\ ~isReadonly(wizard)
          /\ \E p \in Passwords \ {wizard.confirmPassword} :
               wizard' = [wizard EXCEPT !.confirmPassword = p]
    /\ UNCHANGED wizardRest

\* the user selects the other wallet type: the watcher clears the passwords
SelectWalletType ==
    /\ ~wizard.navigated
    /\ wizard.step = 1
    /\ wizard' = [wizard EXCEPT
                    !.walletType = IF @ = "standard" THEN "readonly" ELSE "standard",
                    !.password = "", !.confirmPassword = ""]
    /\ UNCHANGED wizardRest

\* the user edits the field of step 2: the public key or the recovery phrase
EditSecret ==
    /\ ~wizard.navigated
    /\ wizard.step = 2
    /\ \/ /\ isReadonly(wizard)
          /\ \E k \in PublicKeys \ {wizard.xpk} : wizard' = [wizard EXCEPT !.xpk = k]
       \/ /\ ~isReadonly(wizard)
          /\ \E m \in Phrases \ {wizard.mnemonic} :
               wizard' = [wizard EXCEPT !.mnemonic = m]
    /\ UNCHANGED wizardRest

\* the user picks a step in the Stepper: step 1 is always enabled, step 2 when
\* the rules of step 1 hold
SelectStep ==
    /\ ~wizard.navigated
    /\ \E s \in Range(steps) \ {wizard.step} :
         /\ s = 2 => infoRules(wizard)
         /\ wizard' = advance(wizard, s)
    /\ UNCHANGED wizardRest

\* the user submits the form or clicks the button: next()
Next_ ==
    /\ ~wizard.navigated
    /\ \E a \in Attempts :
         /\ wizard.attempts[a] = "idle"
         /\ \A b \in Attempts : b < a => wizard.attempts[b] # "idle"
         /\ wizard' = next(wizard, a)
    /\ UNCHANGED wizardRest

\* app.putWallet has stored the wallet or thrown
PutWalletReturn ==
    /\ \E a \in Attempts :
         /\ wizard.attempts[a] = "put"
         /\ \/ wizard' = [wizard EXCEPT !.attempts[a] = "load"]
            \/ wizard' = importFailed(wizard, a)
    /\ UNCHANGED wizardRest

\* wallet.load has finished or thrown
LoadReturn ==
    /\ \E a \in Attempts :
         /\ wizard.attempts[a] = "load"
         /\ \/ wizard' = [wizard EXCEPT !.attempts[a] = "done", !.loading = FALSE,
                                        !.navigated = TRUE]
            \/ wizard' = importFailed(wizard, a)
    /\ UNCHANGED wizardRest

WizardNext ==
    \/ EditInfo
    \/ SelectWalletType
    \/ EditSecret
    \/ SelectStep
    \/ Next_
    \/ PutWalletReturn
    \/ LoadReturn

WizardSpec == WizardInit /\ [][WizardNext]_vars

\* the rules of step 1 hold of what the view showed
InfoPassed(at) ==
    /\ at.walletName # ""
    /\ \/ at.walletType = "readonly" /\ at.password = ""
       \/ at.password = "longpassword"
    /\ at.confirmPassword = at.password

\* the rule of step 2 holds of what the view showed
SecretPassed(at) ==
    IF at.walletType = "readonly" THEN at.secret = "xpub" ELSE at.secret = "words"

\* an import is suspended on putWallet or on wallet.load
ImportPending == \E a \in Attempts : wizard.attempts[a] \in {"put", "load"}

\* C30: the step of the import wizard is 1 or 2; it goes from 1 to 2 only when the
\* rules of the wallet info hold; putWallet is called only on step 2 with the
\* public key (read-only) or the recovery phrase (standard) valid; a read-only
\* import passes neither mnemonic nor password; and the loading flag is false
\* whenever no import is in flight.
C30_ImportWizard ==
    /\ wizard.step \in {1, 2}
    /\ \A at \in wizard.advances : InfoPassed(at)
    /\ \A p \in wizard.puts :
         /\ p.at.step = 2
         /\ SecretPassed(p.at)
         /\ p.at.walletType = "readonly" =>
              /\ p.args.type = "ReadOnly"
              /\ p.args.mnemonic = Undefined
              /\ p.args.password = Undefined
    /\ ~ImportPending => ~wizard.loading

\* a read-only and a standard import were attempted, one attempt has failed, and
\* no import is in flight
C30_Witness ==
    /\ \E p \in wizard.puts : p.at.walletType = "readonly"
    /\ \E p \in wizard.puts : p.at.walletType = "standard"
    /\ \E a \in Attempts : wizard.attempts[a] = "failed"
    /\ ~ImportPending
    /\ wizard.step = 2
====
